---- MODULE Spec2Model ----
(***************************************************************************)
(* dev-browser server (skills/dev-browser/src/index.ts) and its MetaMask   *)
(* controller (metamask.ts), as state machines.                            *)
(*                                                                         *)
(* Spec            the page registry behind GET/POST/DELETE /pages         *)
(* SpecWallet      the /metamask endpoints and the wallet controller       *)
(* SpecController  the controller methods on the wallet's UI surfaces      *)
(* SpecStartup     the MetaMask initialisation of serve()                  *)
(* SpecShutdown    cleanup, the signal and error handlers, stop()          *)
(*                                                                         *)
(* Every await of the source is a suspension point: the code before it and *)
(* the code after it are separate actions, and other handlers and browser  *)
(* events interleave between them.                                         *)
(***************************************************************************)
EXTENDS Naturals, Integers, Sequences, FiniteSets, TLC

VARIABLES
    registry,      \* Map<string, PageEntry>: name -> [page, targetId]
    pageState,     \* browser pages of the context: "none", "creating", "open", "closed"
    listeners,     \* page.on("close") callbacks: <<page, name>>
    req,           \* /pages requests in flight, one record per connection slot
    procError,     \* a rejection escaped an async handler to the process level
    extensionId,   \* let extensionId: string | null
    metamaskController, \* let metamaskController: MetaMaskController | null
    ctl,           \* createMetaMaskController calls: "none", "opening", "orphan", "ctl"
    rendered,      \* whether the wallet page of a controller has rendered its UI
    walletState,   \* the extension's wallet: "uninitialized", "locked", "unlocked"
    typed,         \* content of the unlock password field of each wallet page
    wreq,          \* /metamask requests in flight, one record per connection slot
    surface,       \* what the wallet UI shows: notification popup, consent prompt, form
    trail,         \* whose step on the wallet UI was the latest, and on which page
    boot,          \* serve(): its options and its position in the MetaMask initialisation
    proc,          \* cleanup(), the server, the browser context and the process
    dom,           \* what the page under a waiting utility shows
    wait,          \* the call of a waiting utility: its position, clock and result
    screen,        \* the onboarding screen of the wallet's setup page
    imp,           \* the call of importWallet: its position, fills and clicks
    ctx,           \* context.pages(): the open pages besides the wallet page, in order
    call,          \* a controller method at work: its target page and its UI steps
    form,          \* the add-network form of the wallet page: what addNetwork can read
    addNet,        \* the call of addNetwork: its position, clock, reads and steps
    retry          \* the call of fetchWithRetry: its attempts and its waits

regVars == <<registry, pageState, listeners, req, procError>>

walVars == <<extensionId, metamaskController, ctl, rendered, walletState, typed, wreq>>

uiVars == <<dom, wait, screen, imp, ctx, call, form, addNet, retry>>

sysVars == <<surface, trail, boot, proc, uiVars>>

vars == <<regVars, walVars, sysVars>>

-----------------------------------------------------------------------------
(* Bounds of the model *)

MaxPages == 2

MaxWalletPages == 2

MaxCleanupRuns == 2

(* selectors in one waitForAnySelector call *)
MaxSelectors == 2

(* the timeout of a waiting utility, counted in poll intervals *)
WaitTimeout == 2

(* characters in a seed phrase *)
MaxSeedLen == 3

(* seed-phrase inputs on the import form *)
MaxFields == 2
(* The largest maxRetries and the largest delayMs (in units) a call of      *)
(* fetchWithRetry is given                                                   *)
MaxRetries == 4
MaxDelayMs == 2

(* name.length > 256 *)
MaxNameLen == 256

(* Two HTTP connections, each carrying one request at a time *)
Slots == {1, 2}
Pages == 1..MaxPages

-----------------------------------------------------------------------------
(* Strings are sequences of one-character strings; JSON body values are    *)
(* tagged records.                                                         *)

JsUndefined == [t |-> "undefined", v |-> <<>>]
JsNumber == [t |-> "number", v |-> <<"5">>]
JsString(s) == [t |-> "string", v |-> s]

Repeat(c, n) == [i \in 1..n |-> c]

NameA == <<"a">>
NameEsc == <<"%", "6", "1">>
NamePct == <<"%">>
NameMax == Repeat("x", MaxNameLen)
NameTooLong == Repeat("x", MaxNameLen + 1)

(* Request bodies of POST /pages and route parameters of DELETE /pages/:name *)
PostBodies ==
    { JsUndefined, JsNumber, JsString(<<>>), JsString(NameA), JsString(NameEsc),
      JsString(NameMax), JsString(NameTooLong) }

DeleteParams == { NameA, NameEsc, NamePct, NameMax }

(* !name : undefined and the empty string are falsy, a non-zero number is not *)
Falsy(b) == b.t = "undefined" \/ (b.t = "string" /\ b.v = <<>>)

(* ValidateName with the length check off by one (>= for >) *)
ValidateName_OffByOne(b) ==
    IF Falsy(b) \/ b.t # "string" THEN "name is required and must be a string"
    ELSE IF Len(b.v) = 0 THEN "name cannot be empty"
    ELSE IF Len(b.v) >= MaxNameLen THEN "name must be 256 characters or less"
    ELSE ""

(* The three checks of POST /pages, in order; "" when the name passes *)
ValidateName(b) ==
    IF Falsy(b) \/ b.t # "string" THEN "name is required and must be a string"
    ELSE IF Len(b.v) = 0 THEN "name cannot be empty"
    ELSE IF Len(b.v) > MaxNameLen THEN "name must be 256 characters or less"
    ELSE ""

(* decodeURIComponent on the model's alphabet: "%" must be followed by two *)
(* hex digits, which are replaced by the character they encode; anything   *)
(* else after "%" throws URIError.                                         *)
HexDigits == {"0", "1", "2", "3", "4", "5", "6", "7", "8", "9"}

HexVal(c) ==
    CASE c = "0" -> 0 [] c = "1" -> 1 [] c = "2" -> 2 [] c = "3" -> 3
      [] c = "4" -> 4 [] c = "5" -> 5 [] c = "6" -> 6 [] c = "7" -> 7
      [] c = "8" -> 8 [] c = "9" -> 9

CharOfCode(n) ==
    CASE n = 97 -> "a" [] n = 37 -> "%" [] n = 54 -> "6" [] n = 49 -> "1"
      [] OTHER -> "?"

RECURSIVE DecodeFrom(_, _)
DecodeFrom(s, i) ==
    LET escapes == { j \in i..Len(s) : s[j] = "%" } IN
    IF escapes = {} THEN [ok |-> TRUE, v |-> SubSeq(s, i, Len(s))]
    ELSE LET j == CHOOSE k \in escapes : \A m \in escapes : k <= m IN
         IF j + 2 > Len(s) \/ s[j + 1] \notin HexDigits \/ s[j + 2] \notin HexDigits
         THEN [ok |-> FALSE, v |-> <<>>]
         ELSE LET rest == DecodeFrom(s, j + 3)
                  code == 16 * HexVal(s[j + 1]) + HexVal(s[j + 2])
              IN  [ok |-> rest.ok /\ code < 128,
                   v |-> SubSeq(s, i, j - 1) \o <<CharOfCode(code)>> \o rest.v]

DecodeURIComponent(s) == DecodeFrom(s, 1)

(* Target.getTargetInfo: the browser's id of the page's target *)
TargetIdOf(p) == <<"target", p>>
NoTarget == <<>>

-----------------------------------------------------------------------------
(* The process: the cleanup guard, the HTTP server, the browser context     *)

(* let cleaningUp = false; the context is open, the server listens, the     *)
(* signal and error handlers are registered, the process has not exited     *)
InitProc ==
    proc = [cleaningUp |-> FALSE, pc |-> "idle", page |-> 0, visited |-> {},
            runs |-> 0, callers |-> {}, first |-> "none", handlers |-> TRUE,
            context |-> "open", server |-> "listening", exit |-> "none"]

(* JavaScript of the process still runs: no exit yet, and no rejection is    *)
(* waiting for process.on("unhandledRejection", errorHandler)                *)
Alive == ~procError /\ proc.exit = "none"

(* app.listen(port) accepts requests until server.close() *)
Accepting == Alive /\ proc.server = "listening"

-----------------------------------------------------------------------------
(* The page registry: GET /pages, POST /pages, DELETE /pages/:name *)

IdleReq ==
    [op |-> "idle", pc |-> "idle", arg |-> JsUndefined, name |-> <<>>, page |-> 0,
     status |-> 0, targetId |-> NoTarget, names |-> {}, threw |-> "", peers |-> {}]

InitRegistry ==
    /\ registry = <<>>
    /\ pageState = [p \in Pages |-> "none"]
    /\ listeners = {}
    /\ req = [r \in Slots |-> IdleReq]
    /\ procError = FALSE

(* registry.set(name, entry) *)
RegistrySet(reg, name, entry) ==
    [n \in DOMAIN reg \cup {name} |-> IF n = name THEN entry ELSE reg[n]]

(* registry.delete(name), for one name or a set of names *)
RegistryDelete(reg, names) == [n \in DOMAIN reg \ names |-> reg[n]]

(* res.json(...) / res.status(...).json(...): the request is answered *)
Respond(r, status, targetId, names) ==
    [req[r] EXCEPT !.pc = "done", !.status = status, !.targetId = targetId,
                   !.names = names]

(* context.newPage() takes the next unused page of the browser context *)
FreshPage == CHOOSE p \in Pages : pageState[p] = "none" /\ \A q \in 1..(p - 1) : pageState[q] # "none"
HasFreshPage == \E p \in Pages : pageState[p] = "none"

(* Requests that are between registry.get(name) and registry.set(name, entry) *)
Creating(name) ==
    { q \in Slots : req[q].op = "post" /\ req[q].pc \in {"newPage", "targetId"}
                    /\ req[q].name = name }

(* FireCloseListeners with the callback never registered *)
FireCloseListeners_NoListener(reg, p) == reg

(* Handlers of the 'close' event of page p: each runs registry.delete(name) *)
FireCloseListeners(reg, p) ==
    RegistryDelete(reg, { n \in DOMAIN reg : <<p, n>> \in listeners })

(* GET /pages *)
ListPages(r) ==
    /\ UNCHANGED <<walVars, sysVars>>
    /\ Accepting
    /\ req[r].op = "idle"
    /\ req' = [req EXCEPT ![r] = [Respond(r, 200, NoTarget, DOMAIN registry)
                                    EXCEPT !.op = "list"]]
    /\ UNCHANGED <<registry, pageState, listeners, procError>>

(* POST /pages up to its first await: validation, registry.get, context.newPage() *)
PostPages(r) ==
    /\ UNCHANGED <<walVars, sysVars>>
    /\ Accepting
    /\ req[r].op = "idle"
    /\ \E b \in PostBodies :
        LET start == [req[r] EXCEPT !.op = "post", !.arg = b] IN
        IF ValidateName(b) # ""
        THEN /\ req' = [req EXCEPT ![r] = [start EXCEPT !.pc = "done", !.status = 400]]
             /\ UNCHANGED <<registry, pageState, listeners, procError>>
        ELSE IF b.v \in DOMAIN registry
        THEN LET entry == registry[b.v] IN
             /\ req' = [req EXCEPT ![r] = [start EXCEPT !.pc = "done", !.status = 200,
                                             !.name = b.v, !.page = entry.page,
                                             !.targetId = entry.targetId]]
             /\ UNCHANGED <<registry, pageState, listeners, procError>>
        ELSE /\ HasFreshPage
             /\ LET p == FreshPage
                    others == Creating(b.v)
                IN  /\ req' = [q \in Slots |->
                                IF q = r
                                THEN [start EXCEPT !.pc = "newPage", !.name = b.v,
                                                   !.page = p, !.peers = others]
                                ELSE IF q \in others
                                THEN [req[q] EXCEPT !.peers = @ \cup {r}]
                                ELSE req[q]]
                    /\ pageState' = [pageState EXCEPT ![p] = "creating"]
             /\ UNCHANGED <<registry, listeners, procError>>

(* withTimeout: context.newPage() settles first; the handler calls getTargetId(page) *)
NewPageResolves(r) ==
    /\ UNCHANGED <<walVars, sysVars>>
    /\ Alive
    /\ req[r].op = "post" /\ req[r].pc = "newPage"
    /\ pageState[req[r].page] = "creating"
    /\ pageState' = [pageState EXCEPT ![req[r].page] = "open"]
    /\ req' = [req EXCEPT ![r].pc = "targetId"]
    /\ UNCHANGED <<registry, listeners, procError>>

(* withTimeout: the 30 s timer settles first; the await throws "Timeout: ..." *)
NewPageTimeout(r) ==
    /\ UNCHANGED <<walVars, sysVars>>
    /\ Alive
    /\ req[r].op = "post" /\ req[r].pc = "newPage"
    /\ req' = [req EXCEPT ![r].pc = "thrown", ![r].threw = "Timeout"]
    /\ UNCHANGED <<registry, pageState, listeners, procError>>

(* The losing promise of the race is not cancelled: the page still opens *)
PageOpensLate(p) ==
    /\ UNCHANGED <<walVars, sysVars>>
    /\ Alive
    /\ pageState[p] = "creating"
    /\ \A r \in Slots : ~(req[r].pc = "newPage" /\ req[r].page = p)
    /\ pageState' = [pageState EXCEPT ![p] = "open"]
    /\ UNCHANGED <<registry, listeners, req, procError>>

(* TargetResolves with the CDP session answering for a closed page too *)
TargetResolves_Regardless(p) == pageState[p] \in {"open", "closed"}

(* context.newCDPSession(page), send("Target.getTargetInfo") and detach() all *)
(* succeed: the page's target is there. On a page that has closed each of     *)
(* them rejects, and the browser's answers and its close event arrive in the  *)
(* order they were sent.                                                      *)
TargetResolves(p) == pageState[p] = "open"

(* getTargetId(page) returns; registry.set, page.on("close", ...), res.json *)
GetTargetIdResolves(r) ==
    /\ UNCHANGED <<walVars, sysVars>>
    /\ Alive
    /\ req[r].op = "post" /\ req[r].pc = "targetId"
    /\ TargetResolves(req[r].page)
    /\ LET p == req[r].page
           name == req[r].name
           entry == [page |-> p, targetId |-> TargetIdOf(p)]
       IN  /\ registry' = RegistrySet(registry, name, entry)
           /\ listeners' = listeners \cup {<<p, name>>}
           /\ req' = [req EXCEPT ![r] = Respond(r, 200, entry.targetId, {})]
    /\ UNCHANGED <<pageState, procError>>

(* getTargetId(page) on a page that closed meanwhile: the CDP session throws *)
GetTargetIdThrows(r) ==
    /\ UNCHANGED <<walVars, sysVars>>
    /\ Alive
    /\ req[r].op = "post" /\ req[r].pc = "targetId"
    /\ pageState[req[r].page] = "closed"
    /\ req' = [req EXCEPT ![r].pc = "thrown", ![r].threw = "TargetClosed"]
    /\ UNCHANGED <<registry, pageState, listeners, procError>>

(* DELETE /pages/:name up to its await: decode, registry.get, entry.page.close() *)
DeletePages(r) ==
    /\ UNCHANGED <<walVars, sysVars>>
    /\ Accepting
    /\ req[r].op = "idle"
    /\ \E param \in DeleteParams :
        LET start == [req[r] EXCEPT !.op = "delete", !.arg = JsString(param)]
            d == DecodeURIComponent(param)
        IN  req' = [req EXCEPT ![r] =
                IF ~d.ok
                THEN [start EXCEPT !.pc = "thrown", !.threw = "URIError"]
                ELSE IF d.v \in DOMAIN registry
                THEN [start EXCEPT !.pc = "closing", !.name = d.v,
                                   !.page = registry[d.v].page]
                ELSE [start EXCEPT !.pc = "done", !.status = 404, !.name = d.v]]
    /\ UNCHANGED <<registry, pageState, listeners, procError>>

(* entry.page.close() has resolved: registry.delete(name), res.json({success}) *)
DeleteResumes(r) ==
    /\ UNCHANGED <<walVars, sysVars>>
    /\ Alive
    /\ req[r].op = "delete" /\ req[r].pc = "closing"
    /\ pageState[req[r].page] = "closed"
    /\ registry' = RegistryDelete(registry, {req[r].name})
    /\ req' = [req EXCEPT ![r] = Respond(r, 200, NoTarget, {})]
    /\ UNCHANGED <<pageState, listeners, procError>>

(* A page closes (page.close(), a script, the user): its 'close' event fires *)
PageClosed(p) ==
    /\ UNCHANGED <<walVars, sysVars>>
    /\ Alive
    /\ pageState[p] = "open"
    /\ pageState' = [pageState EXCEPT ![p] = "closed"]
    /\ registry' = FireCloseListeners(registry, p)
    /\ listeners' = { l \in listeners : l[1] # p }
    /\ UNCHANGED <<req, procError>>

(* A rejection left an async handler. The framework either answers 500 through *)
(* its error middleware, or (it does not await handlers) leaves the rejection  *)
(* to process.on("unhandledRejection", errorHandler) and the caller unanswered. *)
FrameworkAnswers500(r) ==
    /\ UNCHANGED <<walVars, sysVars>>
    /\ Alive
    /\ req[r].pc = "thrown"
    /\ req' = [req EXCEPT ![r] = Respond(r, 500, NoTarget, {})]
    /\ UNCHANGED <<registry, pageState, listeners, procError>>

UnhandledRejection(r) ==
    /\ UNCHANGED <<walVars, sysVars>>
    /\ Alive
    /\ req[r].pc = "thrown"
    /\ req' = [req EXCEPT ![r].pc = "dropped"]
    /\ procError' = TRUE
    /\ UNCHANGED <<registry, pageState, listeners>>

(* The connection slot takes the next request *)
Recycle(r) ==
    /\ UNCHANGED <<walVars, sysVars>>
    /\ Alive
    /\ req[r].pc = "done"
    /\ req' = [q \in Slots |-> IF q = r THEN IdleReq
                               ELSE [req[q] EXCEPT !.peers = @ \ {r}]]
    /\ UNCHANGED <<registry, pageState, listeners, procError>>

NextRegistry ==
    \/ \E r \in Slots : ListPages(r)
    \/ \E r \in Slots : PostPages(r)
    \/ \E r \in Slots : NewPageResolves(r)
    \/ \E r \in Slots : NewPageTimeout(r)
    \/ \E p \in Pages : PageOpensLate(p)
    \/ \E r \in Slots : GetTargetIdResolves(r)
    \/ \E r \in Slots : GetTargetIdThrows(r)
    \/ \E r \in Slots : DeletePages(r)
    \/ \E r \in Slots : DeleteResumes(r)
    \/ \E p \in Pages : PageClosed(p)
    \/ \E r \in Slots : FrameworkAnswers500(r)
    \/ \E r \in Slots : UnhandledRejection(r)
    \/ \E r \in Slots : Recycle(r)

-----------------------------------------------------------------------------
(* The wallet endpoints under /metamask and the controller behind them *)

WPages == 1..MaxWalletPages

NoExtension == ""
MetaMaskId == "extid"
NoController == 0

(* req.body.password: absent, the wallet's password, another string *)
PwMissing == "undefined"
PwRight == "correct"
PwWrong == "wrong"
Passwords == {PwMissing, PwRight, PwWrong}

(* connect, sign, reject-sign, confirm-tx, reject-tx, add-network, switch-network *)
ControllerOps ==
    { "connectToDapp", "confirmSignature", "rejectSignature", "confirmTransaction",
      "rejectTransaction", "addNetwork", "switchNetwork" }

IdleWReq ==
    [op |-> "idle", pc |-> "idle", pw |-> PwMissing, ctl |-> NoController, status |-> 0,
     error |-> "", ui |-> 0, isLocked |-> FALSE, body |-> {}, target |-> "none",
     fresh |-> FALSE]

(* The wallet's UI outside the lock screen: no notification popup, no        *)
(* connection prompt, the wallet page on its home screen                     *)
InitSurface ==
    /\ surface = [popup |-> FALSE, prompt |-> "none", loc |-> "home"]
    /\ trail = [last |-> 0, on |-> "none", cut |-> FALSE]

(* The selectors handed to waitForAnySelector, in declaration order *)
Selectors == 1..MaxSelectors

(* A page on which no selector matches, with an element that is neither      *)
(* visible nor enabled and a condition that does not hold. dom.first is the  *)
(* selector that came to match while no other did, 0 when there is none.     *)
BlankDom ==
    [sel |-> [k \in Selectors |-> FALSE], first |-> 0,
     visible |-> FALSE, enabled |-> FALSE, cond |-> "false"]

(* No waiting utility is running. fn: the utility; pc: the await it is       *)
(* suspended at; t: Date.now() - startTime in poll intervals; i: the         *)
(* selector whose count() is awaited; seen: the selectors counted 0 in this  *)
(* pass of the loop; found: what the last evaluation yielded; result, idx:   *)
(* how the call ended.                                                       *)
IdleWait ==
    [fn |-> "none", pc |-> "idle", t |-> 0, i |-> 0, seen |-> {},
     found |-> "none", result |-> "none", idx |-> 0]

(* No setup page: at is the onboarding screen shown ("loading" between two  *)
(* screens, next the one that renders then), terms whether this wallet      *)
(* version shows terms checkboxes, checked the one of the welcome screen,   *)
(* agree the selectors its terms-agreement button answers to, fields the    *)
(* number of seed-phrase inputs of the form.                                *)
NoScreen ==
    [at |-> "none", next |-> "none", terms |-> FALSE, checked |-> FALSE,
     agree |-> "both", fields |-> 0]

(* importWallet has not been called. build: the source file the loop over   *)
(* the words comes from; branch: nextScreenIndex (-1 before it is set);     *)
(* saw: the markers its waits have observed; clicked: the elements it has   *)
(* clicked; fills: the seed-phrase fills as [i, w]; pwd: the password       *)
(* fields filled.                                                           *)
IdleImport ==
    [pc |-> "idle", build |-> "none", seed |-> <<>>, words |-> <<>>, i |-> 0,
     branch |-> -1, saw |-> {}, clicked |-> {}, fills |-> <<>>, pwd |-> {},
     hasPin |-> FALSE]

(* No controller method is running. op: the method; k: the UI step it is   *)
(* at; target: targetPage, chosen at invocation; on: the page its last UI   *)
(* step worked on; failed: whether that step rejected; popupAtCall: whether *)
(* a notification page was open when the method was invoked; did: the steps *)
(* attempted, bad: those that rejected; status: what the endpoint answered. *)
IdleCall ==
    [op |-> "none", k |-> 0, target |-> "none", on |-> "none", failed |-> FALSE,
     popupAtCall |-> FALSE, result |-> "none", did |-> {}, bad |-> {}, status |-> 0]

(* The add-network form before validation: the wallet page is open, the   *)
(* save button disabled, no spinner, no error under the chain id            *)
BlankForm == [open |-> TRUE, enabled |-> FALSE, spinner |-> FALSE, chainErr |-> FALSE]

(* addNetwork has not been called. explorer: network.blockExplorerUrl is    *)
(* given; t: Date.now() - startTime of the running poll in intervals;       *)
(* isEnabled, hasSpinner, hasChainIdError: what the running evaluation of   *)
(* the validation condition has read; poll, savePoll: how the two polls     *)
(* ended; did: the fills and clicks attempted, failed: those that rejected; *)
(* press: the promise of keyboard.press, which nobody awaits; unhandled: a  *)
(* rejection reached process.on("unhandledRejection").                      *)
IdleNet ==
    [pc |-> "idle", explorer |-> FALSE, t |-> 0, slept |-> FALSE,
     isEnabled |-> FALSE, hasSpinner |-> FALSE, hasChainIdError |-> FALSE,
     poll |-> "none", savePoll |-> "none", did |-> <<>>, failed |-> {},
     press |-> "none", unhandled |-> FALSE, result |-> "none", status |-> 0]

(* fetchWithRetry has not been called *)
IdleRetry ==
    [pc |-> "idle", maxRetries |-> 0, delayMs |-> 0, i |-> 0, attempts |-> 0,
     delays |-> <<>>, lastError |-> "null", result |-> "none"]

InitUi ==
    /\ dom = BlankDom /\ wait = IdleWait /\ screen = NoScreen /\ imp = IdleImport
    /\ ctx = <<>> /\ call = IdleCall
    /\ form = BlankForm /\ addNet = IdleNet /\ retry = IdleRetry

(* serve() has finished its MetaMask initialisation and started the server *)
BootDone ==
    [pc |-> "serving", extensionPath |-> FALSE, seedPhrase |-> FALSE,
     walletPassword |-> PwMissing, networkConfig |-> FALSE, detected |-> FALSE,
     steps |-> <<>>, importFailed |-> FALSE, logged |-> FALSE]

InitServing == boot = BootDone /\ InitProc /\ InitSurface /\ InitUi

(* The wallet variables when the server runs without an extension *)
InitNoWallet ==
    /\ extensionId = NoExtension
    /\ metamaskController = NoController
    /\ ctl = [w \in WPages |-> "none"]
    /\ rendered = [w \in WPages |-> FALSE]
    /\ walletState = "uninitialized"
    /\ typed = [w \in WPages |-> ""]
    /\ wreq = [r \in Slots |-> IdleWReq]

(* The wallet variables at the end of serve()'s MetaMask initialisation:      *)
(* no extension; an existing wallet with or without a controller (a password  *)
(* was or was not supplied, and unlock() returns early when the lock screen   *)
(* was not up yet); an imported wallet with its controller; a fresh wallet    *)
(* left alone, or one whose import failed before or after it was created.     *)
InitWallet ==
    /\ wreq = [r \in Slots |-> IdleWReq]
    /\ typed = [w \in WPages |-> ""]
    /\ \/ /\ extensionId = NoExtension
          /\ metamaskController = NoController
          /\ walletState = "uninitialized"
          /\ ctl = [w \in WPages |-> "none"]
          /\ rendered = [w \in WPages |-> FALSE]
       \/ /\ extensionId = MetaMaskId
          /\ metamaskController = NoController
          /\ walletState \in {"uninitialized", "locked", "unlocked"}
          /\ ctl = [w \in WPages |-> "none"]
          /\ rendered = [w \in WPages |-> FALSE]
       \/ /\ extensionId = MetaMaskId
          /\ metamaskController = 1
          /\ walletState \in {"locked", "unlocked"}
          /\ ctl = [w \in WPages |-> IF w = 1 THEN "ctl" ELSE "none"]
          /\ \E b \in BOOLEAN :
                /\ (walletState = "locked" => ~b)
                /\ rendered = [w \in WPages |-> w = 1 /\ b]

(* if (!metamaskController) *)
ControllerMissing_Never == FALSE

(* ControllerMissing with a request turned away while another is at work *)
ControllerMissing_OrBusy ==
    \/ metamaskController = NoController
    \/ \E q \in Slots : wreq[q].pc \notin {"idle", "done"}

ControllerMissing == metamaskController = NoController

(* metamaskPage.locator('[data-testid="unlock-page"], .unlock-page').count() > 0 *)
LockScreenShown(w) == w \in WPages /\ rendered[w] /\ walletState = "locked"

(* '[data-testid="account-menu-icon"]' is present *)
MainScreenShown(w) == w \in WPages /\ rendered[w] /\ walletState = "unlocked"

(* isCurrentlyLocked with the early return dropped *)
IsCurrentlyLocked_Always(w) == TRUE

(* const isCurrentlyLocked = (await lockButton.count()) > 0 *)
IsCurrentlyLocked(w) == LockScreenShown(w)

WRespond(r, status, error) ==
    [wreq[r] EXCEPT !.pc = "done", !.status = status, !.error = error]

WFreshPage == CHOOSE w \in WPages : ctl[w] = "none" /\ \A v \in 1..(w - 1) : ctl[v] # "none"
WHasFreshPage == \E w \in WPages : ctl[w] = "none"

(* The handlers of the seven controller endpoints, up to the controller call *)
ControllerRequest(r) ==
    /\ UNCHANGED <<regVars, sysVars>>
    /\ wreq[r].op = "idle"
    /\ \E op \in ControllerOps :
        LET start == [wreq[r] EXCEPT !.op = op] IN
        wreq' = [wreq EXCEPT ![r] =
            IF ControllerMissing
            THEN [start EXCEPT !.pc = "done", !.status = 400,
                               !.error = "MetaMask not initialized"]
            ELSE [start EXCEPT !.pc = "running", !.ctl = metamaskController]]
    /\ UNCHANGED <<extensionId, metamaskController, ctl, rendered, walletState, typed>>

(* The controller method starts its clicks, fills and navigations on the wallet UI *)
ControllerUiStep(r) ==
    /\ UNCHANGED <<regVars, sysVars>>
    /\ wreq[r].pc = "running"
    /\ wreq[r].ui = 0
    /\ wreq' = [wreq EXCEPT ![r].ui = 1]
    /\ UNCHANGED <<extensionId, metamaskController, ctl, rendered, walletState, typed>>

(* The controller method returns: res.json({ success: true }) *)
ControllerReturns(r) ==
    /\ UNCHANGED <<regVars, sysVars>>
    /\ wreq[r].pc = "running"
    /\ wreq' = [wreq EXCEPT ![r] = WRespond(r, 200, "")]
    /\ UNCHANGED <<extensionId, metamaskController, ctl, rendered, walletState, typed>>

(* The controller method throws: catch (err) { res.status(500)... } *)
ControllerThrows(r) ==
    /\ UNCHANGED <<regVars, sysVars>>
    /\ wreq[r].pc = "running"
    /\ wreq' = [wreq EXCEPT ![r] = WRespond(r, 500, "Error")]
    /\ UNCHANGED <<extensionId, metamaskController, ctl, rendered, walletState, typed>>

(* UnlockBranch with the password left out of the first condition *)
UnlockBranch_NoPasswordCheck(pw) ==
    IF metamaskController = NoController /\ extensionId # NoExtension THEN "create"
    ELSE IF metamaskController # NoController THEN "unlock"
    ELSE "unavailable"

(* if (!metamaskController && extensionId && password) ... else if            *)
(* (metamaskController) ... else 400                                          *)
UnlockBranch(pw) ==
    IF metamaskController = NoController /\ extensionId # NoExtension /\ pw # PwMissing
    THEN "create"
    ELSE IF metamaskController # NoController THEN "unlock"
    ELSE "unavailable"

(* POST /metamask/unlock up to its first await *)
UnlockRequest(r) ==
    /\ UNCHANGED <<regVars, sysVars>>
    /\ wreq[r].op = "idle"
    /\ \E pw \in Passwords :
        LET start == [wreq[r] EXCEPT !.op = "unlock", !.pw = pw] IN
        IF UnlockBranch(pw) = "create"
        THEN /\ WHasFreshPage
             /\ ctl' = [ctl EXCEPT ![WFreshPage] = "opening"]
             /\ wreq' = [wreq EXCEPT ![r] = [start EXCEPT !.pc = "create", !.ctl = WFreshPage,
                                                           !.fresh = TRUE]]
        ELSE IF UnlockBranch(pw) = "unlock"
        THEN /\ wreq' = [wreq EXCEPT ![r] = [start EXCEPT !.pc = "unlockCheck",
                                                           !.ctl = metamaskController]]
             /\ ctl' = ctl
        ELSE /\ wreq' = [wreq EXCEPT ![r] = [start EXCEPT !.pc = "done", !.status = 400,
                                                           !.error = "MetaMask not available"]]
             /\ ctl' = ctl
    /\ UNCHANGED <<extensionId, metamaskController, rendered, walletState, typed>>

(* createMetaMaskController returns: newPage, goto, waitForMetaMaskReady (which  *)
(* swallows its timeout, so the page may not have rendered); the handler assigns *)
(* metamaskController and calls unlock on it                                     *)
CreateControllerReturns(r) ==
    /\ UNCHANGED <<regVars, sysVars>>
    /\ wreq[r].op = "unlock" /\ wreq[r].pc = "create"
    /\ ctl' = [ctl EXCEPT ![wreq[r].ctl] = "ctl"]
    /\ metamaskController' = wreq[r].ctl
    /\ wreq' = [wreq EXCEPT ![r].pc = "unlockCheck"]
    /\ UNCHANGED <<extensionId, rendered, walletState, typed>>

(* createMetaMaskController throws after newPage (goto or load state failed) *)
CreateControllerThrows(r) ==
    /\ UNCHANGED <<regVars, sysVars>>
    /\ wreq[r].op = "unlock" /\ wreq[r].pc = "create"
    /\ ctl' = [ctl EXCEPT ![wreq[r].ctl] = "orphan"]
    /\ wreq' = [wreq EXCEPT ![r] = WRespond(r, 500, "Error")]
    /\ UNCHANGED <<extensionId, metamaskController, rendered, walletState, typed>>

(* The wallet page renders the screen of the wallet's state *)
RenderWalletPage(w) ==
    /\ UNCHANGED <<regVars, sysVars>>
    /\ ctl[w] \in {"opening", "orphan", "ctl"}
    /\ ~rendered[w]
    /\ rendered' = [rendered EXCEPT ![w] = TRUE]
    /\ UNCHANGED <<extensionId, metamaskController, ctl, walletState, typed, wreq>>

(* unlock(pwd): the lock-screen count; return when it is not showing *)
UnlockCheck(r) ==
    /\ UNCHANGED <<regVars, sysVars>>
    /\ wreq[r].op = "unlock" /\ wreq[r].pc = "unlockCheck"
    /\ wreq' = [wreq EXCEPT ![r] =
            IF IsCurrentlyLocked(wreq[r].ctl)
            THEN [wreq[r] EXCEPT !.pc = "fill"]
            ELSE WRespond(r, 200, "")]
    /\ UNCHANGED <<extensionId, metamaskController, ctl, rendered, walletState, typed>>

(* metamaskPage.fill('[data-testid="unlock-password"], #password', pwd) *)
UnlockFill(r) ==
    /\ UNCHANGED <<regVars, sysVars>>
    /\ wreq[r].op = "unlock" /\ wreq[r].pc = "fill"
    /\ IF LockScreenShown(wreq[r].ctl) /\ wreq[r].pw # PwMissing
       THEN /\ typed' = [typed EXCEPT ![wreq[r].ctl] = wreq[r].pw]
            /\ wreq' = [wreq EXCEPT ![r].pc = "click", ![r].ui = @ + 1]
       ELSE /\ typed' = typed
            /\ wreq' = [wreq EXCEPT ![r] = WRespond(r, 500, "Error")]
    /\ UNCHANGED <<extensionId, metamaskController, ctl, rendered, walletState>>

(* metamaskPage.click('[data-testid="unlock-submit"], button:has-text("Unlock")') *)
UnlockClick(r) ==
    /\ UNCHANGED <<regVars, sysVars>>
    /\ wreq[r].op = "unlock" /\ wreq[r].pc = "click"
    /\ IF LockScreenShown(wreq[r].ctl)
       THEN /\ IF typed[wreq[r].ctl] = PwRight
               THEN walletState' = "unlocked" /\ typed' = [w \in WPages |-> ""]
               ELSE UNCHANGED <<walletState, typed>>
            /\ wreq' = [wreq EXCEPT ![r].pc = "wait", ![r].ui = @ + 1]
       ELSE /\ UNCHANGED <<walletState, typed>>
            /\ wreq' = [wreq EXCEPT ![r] = WRespond(r, 500, "Error")]
    /\ UNCHANGED <<extensionId, metamaskController, ctl, rendered>>

(* WaitForMarker with the timeout swallowed *)
WaitForMarker_Swallowed(w) == "found"

(* waitForSelector(marker, { timeout: 10000 }): resolves when the marker is   *)
(* there, rejects when the timeout passes without it                          *)
WaitForMarker(w) == IF MainScreenShown(w) THEN "found" ELSE "timeout"

(* metamaskPage.waitForSelector('[data-testid="account-menu-icon"]', 10 s) *)
UnlockWait(r) ==
    /\ UNCHANGED <<regVars, sysVars>>
    /\ wreq[r].op = "unlock" /\ wreq[r].pc = "wait"
    /\ wreq' = [wreq EXCEPT ![r] =
            IF WaitForMarker(wreq[r].ctl) = "found" THEN WRespond(r, 200, "")
            ELSE WRespond(r, 500, "Error")]
    /\ UNCHANGED <<extensionId, metamaskController, ctl, rendered, walletState, typed>>

(* isLocked: metamaskController === null *)
StatusIsLocked == metamaskController = NoController

(* GET /: metamaskInitialized: metamaskController !== null *)
MetaMaskInitialized == metamaskController # NoController

(* GET /metamask/status *)
MetaMaskStatus(r) ==
    /\ UNCHANGED <<regVars, sysVars>>
    /\ wreq[r].op = "idle"
    /\ wreq' = [wreq EXCEPT ![r] = [WRespond(r, 200, "") EXCEPT !.op = "status",
                                       !.isLocked = StatusIsLocked]]
    /\ UNCHANGED <<extensionId, metamaskController, ctl, rendered, walletState, typed>>

WRecycle(r) ==
    /\ UNCHANGED <<regVars, sysVars>>
    /\ wreq[r].pc = "done"
    /\ wreq' = [wreq EXCEPT ![r] = IdleWReq]
    /\ UNCHANGED <<extensionId, metamaskController, ctl, rendered, walletState, typed>>

NextWallet ==
    \/ \E r \in Slots : ControllerRequest(r)
    \/ \E r \in Slots : ControllerUiStep(r)
    \/ \E r \in Slots : ControllerReturns(r)
    \/ \E r \in Slots : ControllerThrows(r)
    \/ \E r \in Slots : UnlockRequest(r)
    \/ \E r \in Slots : CreateControllerReturns(r)
    \/ \E r \in Slots : CreateControllerThrows(r)
    \/ \E w \in WPages : RenderWalletPage(w)
    \/ \E r \in Slots : UnlockCheck(r)
    \/ \E r \in Slots : UnlockFill(r)
    \/ \E r \in Slots : UnlockClick(r)
    \/ \E r \in Slots : UnlockWait(r)
    \/ \E r \in Slots : MetaMaskStatus(r)
    \/ \E r \in Slots : WRecycle(r)

-----------------------------------------------------------------------------
(* The controller methods on the wallet's UI: connectToDapp and addNetwork. *)
(* wreq[r].ui counts the navigations, fills and clicks a call has performed. *)

(* What the controller methods leave alone *)
ControllerFrame ==
    UNCHANGED <<regVars, extensionId, metamaskController, ctl, rendered, walletState,
                typed, boot, proc, uiVars>>

(* The wallet variables with the wallet unlocked, with or without a controller *)
InitController ==
    /\ extensionId = MetaMaskId
    /\ walletState = "unlocked"
    /\ typed = [w \in WPages |-> ""]
    /\ wreq = [r \in Slots |-> IdleWReq]
    /\ \/ /\ metamaskController = NoController
          /\ ctl = [w \in WPages |-> "none"]
          /\ rendered = [w \in WPages |-> FALSE]
       \/ /\ metamaskController = 1
          /\ ctl = [w \in WPages |-> IF w = 1 THEN "ctl" ELSE "none"]
          /\ rendered = [w \in WPages |-> w = 1]

(* BestEffort with the catch handler missing *)
BestEffort_Fatal(outcome) == outcome

(* promise.catch(() => {}): a rejection is swallowed *)
BestEffort(outcome) == IF outcome = "timeout" THEN "ok" ELSE outcome

(* The request is inside a controller method, at one of its awaits *)
InFlight(r) == wreq[r].op \in {"connectToDapp", "addNetwork"} /\ wreq[r].pc # "done"

(* The call has been through an awaited step already *)
HasStepped(r) == InFlight(r) /\ wreq[r].pc \notin {"waitNext", "goto"}

(* The call of slot r performs a step on its page: trail keeps whose step   *)
(* was the latest and on which page, and whether that step fell between two *)
(* steps of another call on the same page                                   *)
Touch(r) ==
    trail' = [last |-> r, on |-> wreq[r].target,
              cut |-> /\ HasStepped(r) /\ trail.last \notin {0, r}
                      /\ trail.on = wreq[r].target]

(* findNotificationPage(context) || metamaskPage *)
TargetPage == IF surface.popup THEN "popup" ELSE "home"

(* The consent prompt is on the page a call works on: the popup while it is  *)
(* open, or the wallet page, which shows pending approvals as well           *)
PromptOn(target) ==
    /\ surface.prompt # "none"
    /\ target = "popup" => surface.popup

(* A dapp asks for a connection: the one- or two-step consent UI comes up, in *)
(* a notification popup or on the wallet page                                 *)
DappRequestsConnection ==
    /\ ControllerFrame
    /\ surface.prompt = "none"
    /\ \E step \in {"next", "connect"}, pop \in BOOLEAN :
        surface' = [surface EXCEPT !.prompt = step, !.popup = pop]
    /\ UNCHANGED wreq
    /\ UNCHANGED trail

(* The notification popup is closed; a pending prompt goes with it *)
PopupCloses ==
    /\ ControllerFrame
    /\ surface.popup
    /\ surface' = [surface EXCEPT !.popup = FALSE, !.prompt = "none"]
    /\ UNCHANGED wreq
    /\ UNCHANGED trail

(* POST /metamask/connect up to the first await of connectToDapp *)
ConnectRequest(r) ==
    /\ ControllerFrame
    /\ wreq[r].op = "idle"
    /\ LET start == [wreq[r] EXCEPT !.op = "connectToDapp"] IN
       wreq' = [wreq EXCEPT ![r] =
            IF ControllerMissing
            THEN [start EXCEPT !.pc = "done", !.status = 400,
                               !.error = "MetaMask not initialized"]
            ELSE [start EXCEPT !.pc = "waitNext", !.ctl = metamaskController,
                               !.target = TargetPage]]
    /\ UNCHANGED surface
    /\ UNCHANGED trail

(* waitForAnySelector(targetPage, [...], SHORT_TIMEOUT).catch(() => {}), before *)
(* the first and before the second click                                        *)
ConnectWait(r) ==
    /\ ControllerFrame
    /\ wreq[r].op = "connectToDapp" /\ wreq[r].pc \in {"waitNext", "waitConnect"}
    /\ LET found == IF PromptOn(wreq[r].target) THEN "ok" ELSE "timeout"
           next == IF wreq[r].pc = "waitNext" THEN "clickNext" ELSE "clickConnect"
       IN  wreq' = [wreq EXCEPT ![r] =
                IF BestEffort(found) = "ok" THEN [wreq[r] EXCEPT !.pc = next]
                ELSE WRespond(r, 500, "Error")]
    /\ UNCHANGED surface
    /\ Touch(r)

(* targetPage.click(footer-next / "Next" / "Connect").catch(() => {}): a click *)
(* on the first step shows the second, a click on the last step approves       *)
ConnectClick(r) ==
    /\ ControllerFrame
    /\ wreq[r].op = "connectToDapp" /\ wreq[r].pc \in {"clickNext", "clickConnect"}
    /\ LET hit == PromptOn(wreq[r].target)
           next == IF wreq[r].pc = "clickNext" THEN "waitConnect" ELSE "detached"
       IN  /\ surface' = IF ~hit THEN surface
                         ELSE IF surface.prompt = "next"
                         THEN [surface EXCEPT !.prompt = "connect"]
                         ELSE [surface EXCEPT !.prompt = "none", !.popup = FALSE]
           /\ wreq' = [wreq EXCEPT ![r] =
                IF BestEffort(IF hit THEN "ok" ELSE "timeout") = "ok"
                THEN [wreq[r] EXCEPT !.pc = next, !.ui = @ + (IF hit THEN 1 ELSE 0)]
                ELSE WRespond(r, 500, "Error")]
    /\ Touch(r)

(* waitForDetached(targetPage, footer-next, SHORT_TIMEOUT), which catches its *)
(* own timeout; connectToDapp returns and the handler answers success         *)
ConnectDetached(r) ==
    /\ ControllerFrame
    /\ wreq[r].op = "connectToDapp" /\ wreq[r].pc = "detached"
    /\ LET gone == IF PromptOn(wreq[r].target) THEN "timeout" ELSE "ok" IN
       wreq' = [wreq EXCEPT ![r] =
            IF BestEffort(gone) = "ok" THEN WRespond(r, 200, "")
            ELSE WRespond(r, 500, "Error")]
    /\ UNCHANGED surface
    /\ Touch(r)

(* NetworkConfig: name, rpcUrl, chainId and symbol are required. A request   *)
(* body is the set of the fields it carries.                                 *)
RequiredFields == {"name", "rpcUrl", "chainId", "symbol"}

NetworkBodies ==
    {RequiredFields, {}} \cup { RequiredFields \ {f} : f \in RequiredFields }

(* The form field each fill step of addNetwork writes, and the step after it *)
FillField(pc) ==
    CASE pc = "fillName" -> "name" [] pc = "fillRpc" -> "rpcUrl"
      [] pc = "fillChainId" -> "chainId" [] pc = "fillSymbol" -> "symbol"

AfterFill(pc) ==
    CASE pc = "fillName" -> "fillRpc" [] pc = "fillRpc" -> "fillChainId"
      [] pc = "fillChainId" -> "poll" [] pc = "fillSymbol" -> "save"

(* locator.fill(value): an absent name, rpcUrl or symbol is undefined, which  *)
(* fill rejects; an absent chainId is filled as String(undefined)             *)
FillThrows(body, field) == field \notin body /\ field # "chainId"

(* POST /metamask/add-network up to the first await of addNetwork(req.body) *)
AddNetworkRequest(r) ==
    /\ ControllerFrame
    /\ wreq[r].op = "idle"
    /\ \E body \in NetworkBodies :
        LET start == [wreq[r] EXCEPT !.op = "addNetwork", !.body = body] IN
        wreq' = [wreq EXCEPT ![r] =
            IF ControllerMissing
            THEN [start EXCEPT !.pc = "done", !.status = 400,
                               !.error = "MetaMask not initialized"]
            ELSE [start EXCEPT !.pc = "goto", !.ctl = metamaskController,
                               !.target = "home"]]
    /\ UNCHANGED surface
    /\ UNCHANGED trail

(* metamaskPage.goto(".../home.html#settings/networks/add-network") *)
AddNetworkGoto(r) ==
    /\ ControllerFrame
    /\ wreq[r].op = "addNetwork" /\ wreq[r].pc = "goto"
    /\ surface' = [surface EXCEPT !.loc = "addNetwork"]
    /\ wreq' = [wreq EXCEPT ![r].pc = "form", ![r].ui = @ + 1]
    /\ Touch(r)

(* The form, or the "Add a network manually" button that is then clicked, is *)
(* there, and the first form field is ready                                  *)
AddNetworkFormReady(r) ==
    /\ ControllerFrame
    /\ wreq[r].op = "addNetwork" /\ wreq[r].pc = "form"
    /\ surface.loc = "addNetwork"
    /\ \E manual \in {0, 1} :
        wreq' = [wreq EXCEPT ![r].pc = "fillName", ![r].ui = @ + manual]
    /\ UNCHANGED surface
    /\ Touch(r)

(* waitForAnySelector or waitForSelector on the form times out: not caught *)
AddNetworkFormTimeout(r) ==
    /\ ControllerFrame
    /\ wreq[r].op = "addNetwork" /\ wreq[r].pc = "form"
    /\ wreq' = [wreq EXCEPT ![r] = WRespond(r, 500, "Error")]
    /\ UNCHANGED surface
    /\ Touch(r)

(* networkNameInput.fill, rpcUrlInput.fill, chainIdInput.fill, symbolInput.fill *)
AddNetworkFill(r) ==
    /\ ControllerFrame
    /\ wreq[r].op = "addNetwork"
    /\ wreq[r].pc \in {"fillName", "fillRpc", "fillChainId", "fillSymbol"}
    /\ wreq' = [wreq EXCEPT ![r] =
            IF FillThrows(wreq[r].body, FillField(wreq[r].pc)) \/ surface.loc # "addNetwork"
            THEN WRespond(r, 500, "Error")
            ELSE [wreq[r] EXCEPT !.pc = AfterFill(wreq[r].pc), !.ui = @ + 1]]
    /\ UNCHANGED surface
    /\ Touch(r)

(* pollUntil(chain id validated, 10000, 200).catch(() => {}) *)
AddNetworkPoll(r) ==
    /\ ControllerFrame
    /\ wreq[r].op = "addNetwork" /\ wreq[r].pc = "poll"
    /\ \E outcome \in {"ok", "timeout"} :
        wreq' = [wreq EXCEPT ![r] =
            IF BestEffort(outcome) = "ok" THEN [wreq[r] EXCEPT !.pc = "fillSymbol"]
            ELSE WRespond(r, 500, "Error")]
    /\ UNCHANGED surface
    /\ Touch(r)

(* The save click with its fallbacks and the confirmation wait, all         *)
(* best-effort, and the popup dismissal, whose count and first click are     *)
(* not caught: addNetwork returns, or throws at the dismissal                *)
AddNetworkSave(r) ==
    /\ ControllerFrame
    /\ wreq[r].op = "addNetwork" /\ wreq[r].pc = "save"
    /\ surface' = [surface EXCEPT !.loc = "home"]
    /\ \E dismissed \in BOOLEAN :
        wreq' = [wreq EXCEPT ![r] =
            IF dismissed THEN [WRespond(r, 200, "") EXCEPT !.ui = @ + 1]
            ELSE [WRespond(r, 500, "Error") EXCEPT !.ui = @ + 1]]
    /\ Touch(r)

(* The connection slot takes the next request *)
CRecycle(r) ==
    /\ ControllerFrame
    /\ wreq[r].pc = "done"
    /\ wreq' = [wreq EXCEPT ![r] = IdleWReq]
    /\ UNCHANGED surface
    /\ trail' = IF \E q \in Slots \ {r} : InFlight(q) THEN trail
                ELSE [last |-> 0, on |-> "none", cut |-> FALSE]

NextController ==
    \/ DappRequestsConnection
    \/ PopupCloses
    \/ \E r \in Slots : ConnectRequest(r)
    \/ \E r \in Slots : ConnectWait(r)
    \/ \E r \in Slots : ConnectClick(r)
    \/ \E r \in Slots : ConnectDetached(r)
    \/ \E r \in Slots : AddNetworkRequest(r)
    \/ \E r \in Slots : AddNetworkGoto(r)
    \/ \E r \in Slots : AddNetworkFormReady(r)
    \/ \E r \in Slots : AddNetworkFormTimeout(r)
    \/ \E r \in Slots : AddNetworkFill(r)
    \/ \E r \in Slots : AddNetworkPoll(r)
    \/ \E r \in Slots : AddNetworkSave(r)
    \/ \E r \in Slots : CRecycle(r)

-----------------------------------------------------------------------------
(* serve(): the MetaMask initialisation before the HTTP server starts.       *)
(* boot.steps lists the wallet steps taken: "import", "controller",          *)
(* "unlock", "addNetwork".                                                   *)

(* What the initialisation leaves alone *)
StartupFrame == UNCHANGED <<regVars, typed, wreq, surface, trail, proc, uiVars>>

(* serve(options) is called: any combination of extensionPath, seedPhrase,   *)
(* walletPassword and networkConfig, on a profile with or without a wallet   *)
InitStartup ==
    /\ extensionId = NoExtension
    /\ metamaskController = NoController
    /\ ctl = [w \in WPages |-> "none"]
    /\ rendered = [w \in WPages |-> FALSE]
    /\ walletState \in {"uninitialized", "locked"}
    /\ typed = [w \in WPages |-> ""]
    /\ wreq = [r \in Slots |-> IdleWReq]
    /\ \E ext, seed, net \in BOOLEAN, pw \in Passwords :
        boot = [BootDone EXCEPT !.pc = "start", !.extensionPath = ext,
                                !.seedPhrase = seed, !.walletPassword = pw,
                                !.networkConfig = net]

(* StartupBranch with the import started on a seed phrase alone *)
StartupBranch_SeedOnly(detected) ==
    IF detected THEN "existing"
    ELSE IF boot.seedPhrase THEN "import"
    ELSE "skip"

(* if (walletAlreadyExists) ... else if (options.seedPhrase &&                *)
(* options.walletPassword) ... else ...                                       *)
StartupBranch(detected) ==
    IF detected THEN "existing"
    ELSE IF boot.seedPhrase /\ boot.walletPassword # PwMissing THEN "import"
    ELSE "skip"

(* OnImportError with the try block missing: the error leaves serve() *)
OnImportError_Rethrown == "failed"

(* try { importWallet ... } catch (err) { ... } *)
OnImportError == "caught"

(* if (options.extensionPath) extensionId = await getExtensionId(...): the   *)
(* extension is found or it is not                                           *)
StartupDetectExtension ==
    /\ StartupFrame
    /\ boot.pc = "start"
    /\ IF ~boot.extensionPath
       THEN extensionId' = extensionId /\ boot' = [boot EXCEPT !.pc = "serving"]
       ELSE \/ extensionId' = MetaMaskId /\ boot' = [boot EXCEPT !.pc = "setup"]
            \/ extensionId' = NoExtension /\ boot' = [boot EXCEPT !.pc = "serving"]
    /\ UNCHANGED <<metamaskController, ctl, rendered, walletState>>

(* setupPage: newPage, goto home.html, 2 s, then the query for the unlock    *)
(* screen, which a locked wallet shows if it has rendered by then            *)
StartupInspect ==
    /\ StartupFrame
    /\ boot.pc = "setup"
    /\ \E detected \in BOOLEAN :
        /\ detected => walletState = "locked"
        /\ boot' = [boot EXCEPT !.detected = detected, !.pc = StartupBranch(detected)]
    /\ UNCHANGED <<extensionId, metamaskController, ctl, rendered, walletState>>

(* newPage or goto of the setup page rejects: serve() rejects *)
StartupInspectThrows ==
    /\ StartupFrame
    /\ boot.pc = "setup"
    /\ boot' = [boot EXCEPT !.pc = "failed"]
    /\ UNCHANGED <<extensionId, metamaskController, ctl, rendered, walletState>>

(* Existing wallet: setupPage.close(); if (options.walletPassword) the       *)
(* controller is created                                                     *)
StartupExisting ==
    /\ StartupFrame
    /\ boot.pc = "existing"
    /\ IF boot.walletPassword # PwMissing
       THEN /\ ctl' = [ctl EXCEPT ![WFreshPage] = "opening"]
            /\ boot' = [boot EXCEPT !.pc = "createForUnlock"]
       ELSE /\ ctl' = ctl
            /\ boot' = [boot EXCEPT !.pc = "serving"]
    /\ UNCHANGED <<extensionId, metamaskController, rendered, walletState>>

(* metamaskController = await createMetaMaskController(...) returns *)
StartupControllerCreated ==
    /\ StartupFrame
    /\ boot.pc \in {"createForUnlock", "createAfterImport"}
    /\ \E w \in WPages :
        /\ ctl[w] = "opening"
        /\ ctl' = [ctl EXCEPT ![w] = "ctl"]
        /\ metamaskController' = w
    /\ boot' = [boot EXCEPT
            !.steps = Append(@, "controller"),
            !.pc = IF boot.pc = "createForUnlock" THEN "unlock"
                   ELSE IF boot.networkConfig THEN "addNetwork"
                   ELSE "serving"]
    /\ UNCHANGED <<extensionId, rendered, walletState>>

(* createMetaMaskController rejects: outside a try for an existing wallet,   *)
(* inside the try after an import                                            *)
StartupControllerThrows ==
    /\ StartupFrame
    /\ boot.pc \in {"createForUnlock", "createAfterImport"}
    /\ \E w \in WPages :
        /\ ctl[w] = "opening"
        /\ ctl' = [ctl EXCEPT ![w] = "orphan"]
    /\ boot' = [boot EXCEPT !.pc = IF boot.pc = "createForUnlock" THEN "failed"
                                   ELSE "caught"]
    /\ UNCHANGED <<extensionId, metamaskController, rendered, walletState>>

(* await metamaskController.unlock(options.walletPassword): a no-op without  *)
(* the lock screen, else fill, click and the wait for the main screen, which *)
(* a wrong password fails                                                    *)
StartupUnlock ==
    /\ StartupFrame
    /\ boot.pc = "unlock"
    /\ IF ~IsCurrentlyLocked(metamaskController)
       THEN /\ walletState' = walletState
            /\ boot' = [boot EXCEPT !.steps = Append(@, "unlock"), !.pc = "serving"]
       ELSE IF boot.walletPassword = PwRight
       THEN /\ walletState' = "unlocked"
            /\ boot' = [boot EXCEPT !.steps = Append(@, "unlock"), !.pc = "serving"]
       ELSE /\ walletState' = walletState
            /\ boot' = [boot EXCEPT !.steps = Append(@, "unlock"), !.pc = "failed"]
    /\ UNCHANGED <<extensionId, metamaskController, ctl, rendered>>

(* importWallet returns: the wallet exists and is unlocked; setupPage.close() *)
(* and the controller's creation follow                                       *)
StartupImportSucceeds ==
    /\ StartupFrame
    /\ boot.pc = "import"
    /\ walletState' = "unlocked"
    /\ ctl' = [ctl EXCEPT ![WFreshPage] = "opening"]
    /\ boot' = [boot EXCEPT !.steps = Append(@, "import"), !.pc = "createAfterImport"]
    /\ UNCHANGED <<extensionId, metamaskController, rendered>>

(* importWallet throws, before or after the wallet was created *)
StartupImportFails ==
    /\ StartupFrame
    /\ boot.pc = "import"
    /\ walletState' \in {walletState, "unlocked"}
    /\ boot' = [boot EXCEPT !.steps = Append(@, "import"), !.importFailed = TRUE,
                            !.pc = OnImportError]
    /\ UNCHANGED <<extensionId, metamaskController, ctl, rendered>>

(* await metamaskController.addNetwork(options.networkConfig) returns or throws *)
StartupAddNetwork ==
    /\ StartupFrame
    /\ boot.pc = "addNetwork"
    /\ \E next \in {"serving", "caught"} :
        boot' = [boot EXCEPT !.steps = Append(@, "addNetwork"), !.pc = next]
    /\ UNCHANGED <<extensionId, metamaskController, ctl, rendered, walletState>>

(* catch (err) { console.error("Failed to import wallet:", err);             *)
(* await setupPage.close(); }                                                *)
StartupCatch ==
    /\ StartupFrame
    /\ boot.pc = "caught"
    /\ boot' = [boot EXCEPT !.logged = TRUE, !.pc = "serving"]
    /\ UNCHANGED <<extensionId, metamaskController, ctl, rendered, walletState>>

(* No wallet credentials: setupPage.close() *)
StartupSkip ==
    /\ StartupFrame
    /\ boot.pc = "skip"
    /\ boot' = [boot EXCEPT !.pc = "serving"]
    /\ UNCHANGED <<extensionId, metamaskController, ctl, rendered, walletState>>

(* The server listens: the controller endpoints take requests *)
ServingRequest(r) == boot.pc = "serving" /\ ControllerRequest(r)
ServingUiStep(r) == boot.pc = "serving" /\ ControllerUiStep(r)
ServingReturns(r) == boot.pc = "serving" /\ ControllerReturns(r)
ServingThrows(r) == boot.pc = "serving" /\ ControllerThrows(r)
ServingRecycle(r) == boot.pc = "serving" /\ WRecycle(r)

NextStartup ==
    \/ StartupDetectExtension
    \/ StartupInspect
    \/ StartupInspectThrows
    \/ StartupExisting
    \/ StartupControllerCreated
    \/ StartupControllerThrows
    \/ StartupUnlock
    \/ StartupImportSucceeds
    \/ StartupImportFails
    \/ StartupAddNetwork
    \/ StartupCatch
    \/ StartupSkip
    \/ \E w \in WPages : RenderWalletPage(w)
    \/ \E r \in Slots : ServingRequest(r)
    \/ \E r \in Slots : ServingUiStep(r)
    \/ \E r \in Slots : ServingReturns(r)
    \/ \E r \in Slots : ServingThrows(r)
    \/ \E r \in Slots : ServingRecycle(r)

-----------------------------------------------------------------------------
(* Shutdown: cleanup(), signalHandler, errorHandler and stop(), while the    *)
(* /pages handlers go on. proc.callers are the kinds of caller that have     *)
(* called cleanup(), proc.first the one whose call runs the body, proc.runs  *)
(* how often the body has started, proc.visited the entries the loop over    *)
(* registry.values() has been at, proc.pc the await cleanup is suspended at. *)

(* What shutdown leaves alone *)
ShutdownFrame == UNCHANGED <<walVars, surface, trail, boot, uiVars>>

(* CleanupGuard with the flag never consulted *)
CleanupGuard_Off == FALSE

(* if (cleaningUp) return *)
CleanupGuard == proc.cleaningUp

(* process.exit(0) after a signal, process.exit(1) after an error; stop()    *)
(* only returns                                                              *)
ExitCodeOf(caller) ==
    CASE caller = "signal" -> "0" [] caller = "error" -> "1" [] OTHER -> "none"

(* Names the loop has not been at, and names whose entry was replaced since *)
NotVisited(visited) == { n \in DOMAIN registry : \A v \in visited : v[1] # n }
Replaced(visited) == { n \in DOMAIN registry : <<n, registry[n].page>> \notin visited }

(* for (const entry of registry.values()) { await entry.page.close() }       *)
(* registry.clear(); await context.close(): cleanup runs on to its next      *)
(* await, the close of the next entry's page or, the loop through, the close *)
(* of the context. The iterator is live: it reaches entries added meanwhile. *)
CleanupLoop(base) ==
    \/ \E n \in NotVisited(base.visited) \cup Replaced(base.visited) :
        /\ proc' = [base EXCEPT !.pc = "page", !.page = registry[n].page,
                                !.visited = @ \cup {<<n, registry[n].page>>}]
        /\ registry' = registry
    \/ /\ NotVisited(base.visited) = {}
       /\ proc' = [base EXCEPT !.pc = "context", !.page = 0]
       /\ registry' = <<>>

(* await cleanup() in signalHandler, errorHandler or stop(): a call that     *)
(* finds the guard set returns at once and its caller goes on to            *)
(* process.exit; the other call sets the guard, destroys the sockets and     *)
(* enters the loop over the registry                                         *)
CallCleanup(caller, base) ==
    IF CleanupGuard
    THEN /\ proc' = [base EXCEPT !.callers = @ \cup {caller},
                                 !.exit = ExitCodeOf(caller)]
         /\ registry' = registry
    ELSE CleanupLoop([base EXCEPT !.callers = @ \cup {caller}, !.cleaningUp = TRUE,
                                  !.runs = @ + 1, !.first = caller, !.visited = {}])

(* SIGINT, SIGTERM or SIGHUP: signalHandler *)
Signal ==
    /\ ShutdownFrame
    /\ Alive /\ proc.handlers
    /\ proc.runs < MaxCleanupRuns
    /\ CallCleanup("signal", proc)
    /\ UNCHANGED <<pageState, listeners, req, procError>>

(* An exception nobody caught: errorHandler *)
UncaughtException ==
    /\ ShutdownFrame
    /\ Alive /\ proc.handlers
    /\ proc.runs < MaxCleanupRuns
    /\ CallCleanup("error", proc)
    /\ UNCHANGED <<pageState, listeners, req, procError>>

(* The rejection that left a handler reaches "unhandledRejection":           *)
(* errorHandler, or the death of the process when stop() has removed it      *)
ErrorHandlerRuns ==
    /\ ShutdownFrame
    /\ procError /\ proc.exit = "none"
    /\ proc.runs < MaxCleanupRuns
    /\ procError' = FALSE
    /\ IF proc.handlers THEN CallCleanup("error", proc)
       ELSE proc' = [proc EXCEPT !.exit = "1"] /\ registry' = registry
    /\ UNCHANGED <<pageState, listeners, req>>

(* stop(): removeHandlers(); await cleanup() *)
Stop ==
    /\ ShutdownFrame
    /\ Alive
    /\ proc.runs < MaxCleanupRuns
    /\ CallCleanup("stop", [proc EXCEPT !.handlers = FALSE])
    /\ UNCHANGED <<pageState, listeners, req, procError>>

(* entry.page.close() has settled, the page is closed: the loop goes on *)
CleanupPageClosed ==
    /\ ShutdownFrame
    /\ Alive
    /\ proc.pc = "page"
    /\ pageState[proc.page] = "closed"
    /\ CleanupLoop(proc)
    /\ UNCHANGED <<pageState, listeners, req, procError>>

(* context.close() resolves: every page of the context has closed and fired  *)
(* its 'close' listeners, a pending newPage() has rejected; server.close();  *)
(* cleanup returns and its first caller goes on to process.exit              *)
CleanupContextClosed ==
    /\ ShutdownFrame
    /\ Alive
    /\ proc.pc = "context"
    /\ registry' = RegistryDelete(registry,
            { n \in DOMAIN registry :
                \E p \in Pages : pageState[p] = "open" /\ <<p, n>> \in listeners })
    /\ listeners' = { l \in listeners : pageState[l[1]] # "open" }
    /\ pageState' = [p \in Pages |->
            IF pageState[p] \in {"open", "creating"} THEN "closed" ELSE pageState[p]]
    /\ req' = [r \in Slots |->
            IF req[r].op = "post" /\ req[r].pc = "newPage"
            THEN [req[r] EXCEPT !.pc = "thrown", !.threw = "TargetClosed"]
            ELSE req[r]]
    /\ proc' = [proc EXCEPT !.pc = "done", !.context = "closed", !.server = "closed",
                            !.exit = ExitCodeOf(proc.first)]
    /\ UNCHANGED procError

(* The requests that overlap a shutdown arrive on one connection *)
ShutdownSlots == {1}

NextShutdown ==
    \/ \E r \in ShutdownSlots : ListPages(r)
    \/ \E r \in ShutdownSlots : PostPages(r)
    \/ \E r \in ShutdownSlots : NewPageResolves(r)
    \/ \E r \in ShutdownSlots : NewPageTimeout(r)
    \/ \E p \in Pages : PageOpensLate(p)
    \/ \E r \in ShutdownSlots : GetTargetIdResolves(r)
    \/ \E r \in ShutdownSlots : GetTargetIdThrows(r)
    \/ \E r \in ShutdownSlots : DeletePages(r)
    \/ \E r \in ShutdownSlots : DeleteResumes(r)
    \/ \E p \in Pages : PageClosed(p)
    \/ \E r \in ShutdownSlots : FrameworkAnswers500(r)
    \/ \E r \in ShutdownSlots : UnhandledRejection(r)
    \/ \E r \in ShutdownSlots : Recycle(r)
    \/ Signal
    \/ UncaughtException
    \/ ErrorHandlerRuns
    \/ Stop
    \/ CleanupPageClosed
    \/ CleanupContextClosed

-----------------------------------------------------------------------------
(* The waiting utilities: waitForAnySelector, waitForInteractable, pollUntil. *)
(* Each await of a utility is one step. The page changes between the steps:   *)
(* selectors come to match and cease to, the element shows and hides, is      *)
(* enabled and disabled, the caller's condition holds, fails or throws.       *)

(* What the waiting utilities leave alone *)
WaitFrame ==
    UNCHANGED <<regVars, walVars, surface, trail, boot, proc, screen, imp, ctx, call, form, addNet, retry>>

(* The clock is read in poll intervals and not followed past the timeout *)
Elapsed(t, d) == IF t + d > WaitTimeout THEN WaitTimeout + 1 ELSE t + d

(* An awaited evaluation in the browser takes less than an interval or more *)
EvalTime == {0, 1}

(* WithinTimeout with the clock never consulted *)
WithinTimeout_Forever(t) == TRUE

(* while (Date.now() - startTime < timeout) *)
WithinTimeout(t) == t < WaitTimeout

(* SelectorAt with the loop running from the last selector to the first *)
SelectorAt_Reversed(k) == MaxSelectors + 1 - k

(* for (let i = 0; i < selectors.length; i++): the k-th selector evaluated *)
SelectorAt(k) == k

(* The utilities and what their callers pass as condition *)
Utilities == {"any", "interactable", "poll"}

(* A caller invokes a utility: startTime is taken and the first evaluation  *)
(* is issued; waitForInteractable first waits for the element to be visible *)
WaitCall(fn) ==
    /\ WaitFrame
    /\ wait.pc = "idle"
    /\ wait' = [IdleWait EXCEPT !.fn = fn,
                   !.pc = CASE fn = "any" -> "count"
                            [] fn = "interactable" -> "visible"
                            [] OTHER -> "condition",
                   !.i = IF fn = "any" THEN 1 ELSE 0]
    /\ UNCHANGED dom

(* The page changes under waitForAnySelector: selector k starts or stops matching *)
SelectorChanges(k) ==
    /\ WaitFrame
    /\ wait.fn = "any" /\ wait.result = "none"
    /\ LET now == [dom.sel EXCEPT ![k] = ~dom.sel[k]]
           others == { j \in Selectors : j # k /\ dom.sel[j] }
       IN dom' = [dom EXCEPT !.sel = now,
                     !.first = IF now[k]
                               THEN (IF others = {} THEN k ELSE dom.first)
                               ELSE (IF dom.first = k THEN 0 ELSE dom.first)]
    /\ UNCHANGED wait

(* The element under waitForInteractable shows, hides, is enabled or disabled *)
ElementChanges ==
    /\ WaitFrame
    /\ wait.fn = "interactable" /\ wait.result = "none"
    /\ \/ dom' = [dom EXCEPT !.visible = ~dom.visible]
       \/ dom' = [dom EXCEPT !.enabled = ~dom.enabled]
    /\ UNCHANGED wait

(* What the next evaluation of pollUntil's condition will do *)
ConditionChanges(c) ==
    /\ WaitFrame
    /\ wait.fn = "poll" /\ wait.result = "none"
    /\ c # dom.cond
    /\ dom' = [dom EXCEPT !.cond = c]
    /\ UNCHANGED wait

(* waitForAnySelector: await page.locator(selectors[i]).count() resolves.   *)
(* count > 0 returns i; after the last selector waitForTimeout(100) starts. *)
AnyCount(d) ==
    /\ WaitFrame
    /\ wait.fn = "any" /\ wait.pc = "count"
    /\ LET k == SelectorAt(wait.i)
       IN IF dom.sel[k]
          THEN wait' = [wait EXCEPT !.pc = "done", !.result = "index", !.idx = k,
                           !.found = "true", !.t = Elapsed(wait.t, d)]
          ELSE wait' = [wait EXCEPT !.seen = wait.seen \cup {k}, !.found = "false",
                           !.t = Elapsed(wait.t, d),
                           !.i = IF wait.i < MaxSelectors THEN wait.i + 1 ELSE 0,
                           !.pc = IF wait.i < MaxSelectors THEN "count" ELSE "sleep"]
    /\ UNCHANGED dom

(* waitForAnySelector: waitForTimeout(100) resolves; the loop condition is  *)
(* tested: another pass over the selectors, or the throw after the loop     *)
AnySleep ==
    /\ WaitFrame
    /\ wait.fn = "any" /\ wait.pc = "sleep"
    /\ LET t == Elapsed(wait.t, 1)
       IN IF WithinTimeout(t)
          THEN wait' = [wait EXCEPT !.t = t, !.pc = "count", !.i = 1, !.seen = {}]
          ELSE wait' = [wait EXCEPT !.t = t, !.pc = "done", !.result = "timeout"]
    /\ UNCHANGED dom

(* waitForInteractable: locator.waitFor({state: "visible", timeout}) resolves; *)
(* startTime is taken and isEnabled() is issued                                *)
InteractableVisible ==
    /\ WaitFrame
    /\ wait.fn = "interactable" /\ wait.pc = "visible"
    /\ dom.visible
    /\ wait' = [wait EXCEPT !.pc = "enabled", !.t = 0]
    /\ UNCHANGED dom

(* waitForInteractable: the element did not show within the timeout, waitFor rejects *)
InteractableHidden ==
    /\ WaitFrame
    /\ wait.fn = "interactable" /\ wait.pc = "visible"
    /\ ~dom.visible
    /\ wait' = [wait EXCEPT !.pc = "done", !.result = "timeout", !.t = WaitTimeout]
    /\ UNCHANGED dom

(* waitForInteractable: await locator.isEnabled() resolves: return when true, *)
(* waitForTimeout(50) otherwise                                               *)
InteractableEnabled(d) ==
    /\ WaitFrame
    /\ wait.fn = "interactable" /\ wait.pc = "enabled"
    /\ IF dom.enabled
       THEN wait' = [wait EXCEPT !.pc = "done", !.result = "returned", !.found = "true",
                        !.t = Elapsed(wait.t, d)]
       ELSE wait' = [wait EXCEPT !.pc = "sleep", !.found = "false",
                        !.t = Elapsed(wait.t, d)]
    /\ UNCHANGED dom

(* waitForInteractable: waitForTimeout(50) resolves; the loop condition is   *)
(* tested; after the loop the function ends without a throw                  *)
InteractableSleep ==
    /\ WaitFrame
    /\ wait.fn = "interactable" /\ wait.pc = "sleep"
    /\ LET t == Elapsed(wait.t, 1)
       IN IF WithinTimeout(t)
          THEN wait' = [wait EXCEPT !.t = t, !.pc = "enabled"]
          ELSE wait' = [wait EXCEPT !.t = t, !.pc = "done", !.result = "returned"]
    /\ UNCHANGED dom

(* pollUntil: await condition() settles: true returns, false starts         *)
(* waitForTimeout(interval), a rejection leaves pollUntil as it is          *)
PollCondition(d) ==
    /\ WaitFrame
    /\ wait.fn = "poll" /\ wait.pc = "condition"
    /\ wait' = [wait EXCEPT !.found = dom.cond, !.t = Elapsed(wait.t, d),
                   !.pc = IF dom.cond = "false" THEN "sleep" ELSE "done",
                   !.result = CASE dom.cond = "true" -> "returned"
                                [] dom.cond = "reject" -> "error"
                                [] OTHER -> "none"]
    /\ UNCHANGED dom

(* pollUntil: waitForTimeout(interval) resolves; the loop condition is      *)
(* tested: another evaluation, or the throw after the loop                  *)
PollSleep ==
    /\ WaitFrame
    /\ wait.fn = "poll" /\ wait.pc = "sleep"
    /\ LET t == Elapsed(wait.t, 1)
       IN IF WithinTimeout(t)
          THEN wait' = [wait EXCEPT !.t = t, !.pc = "condition"]
          ELSE wait' = [wait EXCEPT !.t = t, !.pc = "done", !.result = "timeout"]
    /\ UNCHANGED dom

(* The caller has the outcome; the utility can be called again on any page *)
WaitRecycle ==
    /\ WaitFrame
    /\ wait.pc = "done"
    /\ wait' = IdleWait
    /\ dom' = BlankDom

(* The steps of the utilities themselves, as opposed to the page's *)
WaitStep ==
    \/ \E d \in EvalTime : AnyCount(d)
    \/ AnySleep
    \/ InteractableVisible
    \/ InteractableHidden
    \/ \E d \in EvalTime : InteractableEnabled(d)
    \/ InteractableSleep
    \/ \E d \in EvalTime : PollCondition(d)
    \/ PollSleep

NextWait ==
    \/ \E fn \in Utilities : WaitCall(fn)
    \/ \E k \in Selectors : SelectorChanges(k)
    \/ ElementChanges
    \/ \E c \in {"true", "false", "reject"} : ConditionChanges(c)
    \/ \E d \in EvalTime : AnyCount(d)
    \/ AnySleep
    \/ InteractableVisible
    \/ InteractableHidden
    \/ \E d \in EvalTime : InteractableEnabled(d)
    \/ InteractableSleep
    \/ \E d \in EvalTime : PollCondition(d)
    \/ PollSleep
    \/ WaitRecycle

-----------------------------------------------------------------------------
(* importWallet: the onboarding of a fresh wallet from a seed phrase. Each   *)
(* await is one step. The setup page answers a click by leaving the screen   *)
(* and rendering the next one some time later; which screen follows the      *)
(* import selection, the terms agreement and the password depends on the     *)
(* wallet's version.                                                         *)

(* What importWallet leaves alone *)
ImportFrame ==
    UNCHANGED <<regVars, walVars, surface, trail, boot, proc, dom, wait, ctx, call, form, addNet, retry>>

(* seedPhrase: non-empty strings (serve tests options.seedPhrase) of letters and blanks *)
SeedChars == {"a", " "}

SeedPhrases == UNION { [1..n -> SeedChars] : n \in 1..MaxSeedLen }

(* \s *)
IsSpace(c) == c = " "

(* String.prototype.trim *)
Trim(s) ==
    LET solid == { p \in 1..Len(s) : ~IsSpace(s[p]) }
    IN IF solid = {} THEN <<>>
       ELSE SubSeq(s, CHOOSE p \in solid : \A q \in solid : p <= q,
                      CHOOSE p \in solid : \A q \in solid : p >= q)

(* String.prototype.split(/\s+/): the pieces between the runs of whitespace; *)
(* the empty string gives one empty piece                                    *)
RECURSIVE SplitWs(_)
SplitWs(s) ==
    LET blanks == { p \in 1..Len(s) : IsSpace(s[p]) }
    IN IF blanks = {} THEN <<s>>
       ELSE LET p == CHOOSE b \in blanks : \A c \in blanks : b <= c
                after == { q \in p..Len(s) : ~IsSpace(s[q]) }
                q == IF after = {} THEN Len(s) + 1
                     ELSE CHOOSE a \in after : \A c \in after : a <= c
            IN <<SubSeq(s, 1, p - 1)>> \o SplitWs(SubSeq(s, q, Len(s)))

(* const words = seedPhrase.trim().split(/\s+/) *)
SeedWords(seed) == SplitWs(Trim(seed))

(* The screens that may follow a click on an element *)
NextScreens(m) ==
    CASE m = "onboarding-import-wallet" -> {"srp", "metrics", "terms2"}
      [] m \in {"onboarding-import-button", "I agree"} -> {"srp", "metrics"}
      [] m = "metametrics-no-thanks" -> {"srp"}
      [] m = "import-srp-confirm" -> {"password"}
      [] m = "create-password-import" -> {"complete", "pin", "main"}
      [] m = "onboarding-complete-done" -> {"pin", "main"}
      [] m = "pin-extension-next" -> {"pin2"}
      [] m = "pin-extension-done" -> {"main"}
      [] OTHER -> {}

(* The selector matches an element of the screen shown *)
Present(m) ==
    CASE m = "onboarding-import-wallet" -> screen.at = "welcome"
      [] m = "onboarding-terms-checkbox" -> screen.at = "welcome" /\ screen.terms
      [] m = "import-srp__srp-word-0" -> screen.at = "srp"
      [] m = "import-srp-confirm" -> screen.at = "srp"
      [] m = "metametrics-no-thanks" -> screen.at = "metrics"
      [] m = "onboarding-import-button" ->
             screen.at = "terms2" /\ screen.agree \in {"testid", "both"}
      [] m = "I agree" -> screen.at = "terms2" /\ screen.agree \in {"text", "both"}
      [] m \in {"create-password-new", "create-password-confirm",
                "create-password-import"} -> screen.at = "password"
      [] m = "create-password-terms" -> screen.at = "password" /\ screen.terms
      [] m = "onboarding-complete-done" -> screen.at = "complete"
      [] m = "pin-extension-next" -> screen.at = "pin"
      [] m = "pin-extension-done" -> screen.at = "pin2"
      [] m \in {"account-menu-icon", "eth-overview-send"} -> screen.at = "main"
      [] OTHER -> FALSE

(* The seed-phrase input of index i (from 0) is on the form *)
FieldPresent(i) == screen.at = "srp" /\ i < screen.fields

(* The screen is rendered: what is absent now stays absent until a click *)
Stable == screen.at # "loading"

(* The import button is enabled once the terms checkbox, if any, is ticked *)
ImportEnabled == screen.checked \/ ~screen.terms

(* Observed with the wait given up: the flow goes on without the marker *)
Observed_Unchecked(m) == TRUE

(* A wait for selector m ends normally: the selector matches *)
Observed(m) == Present(m)

(* ShouldDecline with the count of the opt-out button left out *)
ShouldDecline_IndexOnly(index, count) == index = 1

(* nextScreenIndex === 1 || count > 0 *)
ShouldDecline(index, count) == index = 1 \/ count > 0

(* importWallet threw *)
Thrown == [imp EXCEPT !.pc = "thrown"]

(* importWallet(page, seedPhrase, password) is called on a fresh setup page *)
ImportCall(seed, build, terms) ==
    /\ imp.pc = "idle"
    /\ ImportFrame
    /\ imp' = [IdleImport EXCEPT !.pc = "load", !.seed = seed, !.build = build]
    /\ screen' = [NoScreen EXCEPT !.at = "loading", !.next = "welcome", !.terms = terms]

(* The page renders the screen that follows *)
Render ==
    /\ ImportFrame
    /\ screen.at = "loading"
    /\ screen' = [screen EXCEPT !.at = screen.next, !.next = "none"]
    /\ UNCHANGED imp

(* The page leaves the screen shown for one of the screens that may follow a *)
(* click on m; the version decides which, what its terms-agreement button    *)
(* answers to and how many seed-phrase inputs its form has                   *)
Leaves(m) ==
    \E n \in NextScreens(m) :
        \E a \in (IF n = "terms2" THEN {"testid", "text", "both"} ELSE {NoScreen.agree}) :
            \E f \in (IF n = "srp" THEN 1..MaxFields ELSE {NoScreen.fields}) :
                screen' = [screen EXCEPT !.at = "loading", !.next = n,
                              !.agree = a, !.fields = f]

(* The awaited page.click(selector) calls that lead from one screen to the  *)
(* next: where the flow stands, the selector, where it goes on, and whether *)
(* a rejection is fatal (no .catch(() => {})):                              *)
(* part_001:261 onboarding-import-button, 262 "I agree", 277                *)
(* metametrics-no-thanks, 296 import-srp-confirm, 309                       *)
(* create-password-import, 326 onboarding-complete-done, 331                *)
(* pin-extension-next, 332 pin-extension-done                               *)
ImportClicks ==
    { [pc |-> "agree1", m |-> "onboarding-import-button", then |-> "agree2", fatal |-> FALSE],
      [pc |-> "agree2", m |-> "I agree", then |-> "rewait", fatal |-> FALSE],
      [pc |-> "decline", m |-> "metametrics-no-thanks", then |-> "srpWait", fatal |-> FALSE],
      [pc |-> "confirm", m |-> "import-srp-confirm", then |-> "pwWait", fatal |-> TRUE],
      [pc |-> "pwSubmit", m |-> "create-password-import", then |-> "completeWait",
       fatal |-> TRUE],
      [pc |-> "done", m |-> "onboarding-complete-done", then |-> "pinCount", fatal |-> FALSE],
      [pc |-> "pinNext", m |-> "pin-extension-next", then |-> "pinDone", fatal |-> FALSE],
      [pc |-> "pinDone", m |-> "pin-extension-done", then |-> "gotIt", fatal |-> FALSE] }

(* await page.click(c.m): the element is clicked when the selector matches;  *)
(* on a rendered screen without it the click rejects, and the flow throws    *)
(* or, with .catch(() => {}), goes on                                        *)
ImportClick(c) ==
    /\ imp.pc = c.pc
    /\ ImportFrame
    /\ \/ /\ Present(c.m)
          /\ imp' = [imp EXCEPT !.pc = c.then, !.clicked = @ \cup {c.m}]
          /\ Leaves(c.m)
       \/ /\ Stable /\ ~Present(c.m)
          /\ imp' = IF c.fatal THEN Thrown ELSE [imp EXCEPT !.pc = c.then]
          /\ UNCHANGED screen

(* await page.waitForLoadState("domcontentloaded") *)
ImportLoaded ==
    /\ ImportFrame
    /\ imp.pc = "load"
    /\ imp' = [imp EXCEPT !.pc = "onboarding"]
    /\ UNCHANGED screen

(* await waitForAnySelector(page, [import-wallet, terms-checkbox], 10000) *)
ImportOnboarding ==
    /\ ImportFrame
    /\ imp.pc = "onboarding"
    /\ \/ /\ Observed("onboarding-import-wallet") \/ Observed("onboarding-terms-checkbox")
          /\ imp' = [imp EXCEPT !.pc = "termsCount",
                        !.saw = @ \cup { m \in {"onboarding-import-wallet",
                                                 "onboarding-terms-checkbox"} : Present(m) }]
       \/ /\ Stable /\ ~Present("onboarding-import-wallet")
          /\ ~Present("onboarding-terms-checkbox")
          /\ imp' = Thrown
    /\ UNCHANGED screen

(* STEP 1: await termsCheckbox.count() *)
ImportTermsCount ==
    /\ ImportFrame
    /\ imp.pc = "termsCount"
    /\ imp' = [imp EXCEPT !.pc = IF Present("onboarding-terms-checkbox")
                                 THEN "isChecked" ELSE "interactable"]
    /\ UNCHANGED screen

(* await termsCheckbox.first().isChecked().catch(() => false) *)
ImportTermsIsChecked ==
    /\ ImportFrame
    /\ imp.pc = "isChecked"
    /\ imp' = [imp EXCEPT !.pc = IF screen.checked THEN "interactable" ELSE "termsClick"]
    /\ UNCHANGED screen

(* await termsCheckbox.first().click() *)
ImportTermsClick ==
    /\ ImportFrame
    /\ imp.pc = "termsClick"
    /\ IF Present("onboarding-terms-checkbox")
       THEN /\ screen' = [screen EXCEPT !.checked = ~screen.checked]
            /\ imp' = [imp EXCEPT !.pc = "interactable",
                          !.clicked = @ \cup {"onboarding-terms-checkbox"}]
       ELSE /\ imp' = Thrown
            /\ UNCHANGED screen

(* STEP 2: await waitForInteractable(importBtn, 5000).catch(...): it ends    *)
(* normally for a visible button, enabled or not; for a button that is not   *)
(* there the handler ticks the checkbox and waits again, fatally             *)
ImportInteractable ==
    /\ ImportFrame
    /\ imp.pc = "interactable"
    /\ Stable
    /\ imp' = IF Present("onboarding-import-wallet")
              THEN [imp EXCEPT !.pc = "importClick"]
              ELSE Thrown
    /\ UNCHANGED screen

(* await importBtn.click(): Playwright clicks an enabled button only *)
ImportSelect ==
    /\ ImportFrame
    /\ imp.pc = "importClick"
    /\ \/ /\ Present("onboarding-import-wallet") /\ ImportEnabled
          /\ imp' = [imp EXCEPT !.pc = "branch",
                        !.clicked = @ \cup {"onboarding-import-wallet"}]
          /\ Leaves("onboarding-import-wallet")
       \/ /\ Stable
          /\ ~(Present("onboarding-import-wallet") /\ ImportEnabled)
          /\ imp' = Thrown
          /\ UNCHANGED screen

(* The selectors of the branch wait, in declaration order from 0 *)
BranchSelectors ==
    <<"import-srp__srp-word-0", "metametrics-no-thanks",
      "onboarding-import-button", "I agree">>

(* What waitForAnySelector returns on a rendered screen: the first selector  *)
(* in declaration order that matches, from 0; -1 when none does              *)
FirstMatch(selectors) ==
    LET hits == { k \in 1..Len(selectors) : Present(selectors[k]) }
    IN IF hits = {} THEN -1
       ELSE (CHOOSE k \in hits : \A j \in hits : k <= j) - 1

(* STEP 3: nextScreenIndex = await waitForAnySelector(page, [...], 10000);   *)
(* the terms screen (index >= 2) is agreed to, index 1 is declined without   *)
(* a count, index 0 counts the opt-out button                                *)
ImportBranch ==
    /\ ImportFrame
    /\ imp.pc = "branch"
    /\ Stable
    /\ LET index == FirstMatch(BranchSelectors)
       IN imp' = IF index = -1 THEN Thrown
                 ELSE [imp EXCEPT !.branch = index,
                          !.saw = @ \cup {BranchSelectors[index + 1]},
                          !.pc = CASE index >= 2 -> "agree1"
                                   [] index = 1 -> "decline"
                                   [] OTHER -> "metricsCount"]
    /\ UNCHANGED screen

(* await waitForAnySelector(page, [srp-word-0, metametrics-no-thanks], 10000) *)
ImportRewait ==
    /\ ImportFrame
    /\ imp.pc = "rewait"
    /\ Stable
    /\ LET index == FirstMatch(<<"import-srp__srp-word-0", "metametrics-no-thanks">>)
       IN imp' = IF index = -1 THEN Thrown
                 ELSE [imp EXCEPT !.pc = "metricsCount", !.saw = @ \cup {"rewait"}]
    /\ UNCHANGED screen

(* (await page.locator('[data-testid="metametrics-no-thanks"]').count()) > 0 *)
ImportMetricsCount ==
    /\ ImportFrame
    /\ imp.pc = "metricsCount"
    /\ LET count == IF Present("metametrics-no-thanks") THEN 1 ELSE 0
       IN imp' = [imp EXCEPT !.pc = IF ShouldDecline(imp.branch, count)
                                    THEN "decline" ELSE "srpWait"]
    /\ UNCHANGED screen

(* STEP 4: await page.waitForSelector(srp-word-0, {timeout}); the phrase is  *)
(* split and the loop over the words starts                                  *)
ImportSrpWait ==
    /\ ImportFrame
    /\ imp.pc = "srpWait"
    /\ \/ /\ Observed("import-srp__srp-word-0")
          /\ imp' = [imp EXCEPT !.pc = "words", !.words = SeedWords(imp.seed), !.i = 0,
                        !.saw = @ \cup { m \in {"import-srp__srp-word-0"} : Present(m) }]
       \/ /\ Stable /\ ~Present("import-srp__srp-word-0")
          /\ imp' = Thrown
    /\ UNCHANGED screen

(* for (let i = 0; i < words.length; i++): the loop test after a fill *)
NextWord(f) ==
    [f EXCEPT !.i = f.i + 1,
              !.pc = IF f.i + 1 < Len(f.words) THEN "words" ELSE "confirm"]

(* part_001: await page.fill(`[data-testid="import-srp__srp-word-${i}"]`,    *)
(* words[i]); fill waits for the input and rejects when there is none        *)
ImportFillWord ==
    /\ ImportFrame
    /\ imp.pc = "words" /\ imp.build = "part_001"
    /\ \/ /\ FieldPresent(imp.i)
          /\ imp' = NextWord([imp EXCEPT
                        !.fills = Append(@, [i |-> imp.i, w |-> imp.words[imp.i + 1]])])
       \/ /\ Stable /\ ~FieldPresent(imp.i)
          /\ imp' = Thrown
    /\ UNCHANGED screen

(* metamask.ts: if ((await input.count()) > 0): a word without input is skipped *)
ImportWordCount ==
    /\ ImportFrame
    /\ imp.pc = "words" /\ imp.build = "metamask.ts"
    /\ imp' = IF FieldPresent(imp.i) THEN [imp EXCEPT !.pc = "wordFill"] ELSE NextWord(imp)
    /\ UNCHANGED screen

(* metamask.ts: await input.fill(words[i]) *)
ImportWordFill ==
    /\ ImportFrame
    /\ imp.pc = "wordFill"
    /\ \/ /\ FieldPresent(imp.i)
          /\ imp' = NextWord([imp EXCEPT
                        !.fills = Append(@, [i |-> imp.i, w |-> imp.words[imp.i + 1]])])
       \/ /\ Stable /\ ~FieldPresent(imp.i)
          /\ imp' = Thrown
    /\ UNCHANGED screen

(* STEP 5: await page.waitForSelector(create-password-new, {timeout}) *)
ImportPasswordWait ==
    /\ ImportFrame
    /\ imp.pc = "pwWait"
    /\ \/ /\ Observed("create-password-new")
          /\ imp' = [imp EXCEPT !.pc = "pwNew",
                        !.saw = @ \cup { m \in {"create-password-new"} : Present(m) }]
       \/ /\ Stable /\ ~Present("create-password-new")
          /\ imp' = Thrown
    /\ UNCHANGED screen

(* await page.fill(create-password-new, password), then create-password-confirm *)
ImportFillPassword(m) ==
    /\ ImportFrame
    /\ imp.pc = (IF m = "create-password-new" THEN "pwNew" ELSE "pwConfirm")
    /\ \/ /\ Present(m)
          /\ imp' = [imp EXCEPT !.pwd = @ \cup {m},
                        !.pc = IF m = "create-password-new" THEN "pwConfirm" ELSE "pwTerms"]
       \/ /\ Stable /\ ~Present(m)
          /\ imp' = Thrown
    /\ UNCHANGED screen

(* await page.click('[data-testid="create-password-terms"]').catch(() => {}) *)
ImportPasswordTerms ==
    /\ ImportFrame
    /\ imp.pc = "pwTerms"
    /\ Stable
    /\ imp' = [imp EXCEPT !.pc = "pwSubmit",
                  !.clicked = @ \cup { m \in {"create-password-terms"} : Present(m) }]
    /\ UNCHANGED screen

(* STEP 6: await waitForAnySelector(page, [complete-done, pin-extension-next, *)
(* account-menu-icon], 15000)                                                 *)
ImportCompleteWait ==
    /\ ImportFrame
    /\ imp.pc = "completeWait"
    /\ LET markers == {"onboarding-complete-done", "pin-extension-next", "account-menu-icon"}
       IN \/ /\ \E m \in markers : Observed(m)
             /\ imp' = [imp EXCEPT !.pc = "done",
                           !.saw = @ \cup (IF \E m \in markers : Present(m)
                                           THEN {"completion"} ELSE {})]
          \/ /\ Stable /\ \A m \in markers : ~Present(m)
             /\ imp' = Thrown
    /\ UNCHANGED screen

(* hasPinScreen = (await page.locator(pin-extension-next).count()) > 0: the  *)
(* count is of the page as it is, rendered or not                            *)
ImportPinCount ==
    /\ ImportFrame
    /\ imp.pc = "pinCount"
    /\ imp' = [imp EXCEPT !.hasPin = Present("pin-extension-next"),
                  !.pc = IF Present("pin-extension-next") THEN "pinNext" ELSE "gotIt"]
    /\ UNCHANGED screen

(* await page.click('button:has-text("Got it")').catch(() => {}), then        *)
(* popover-close: informational popups, none in this model                    *)
ImportDismiss ==
    /\ ImportFrame
    /\ imp.pc \in {"gotIt", "popover"}
    /\ Stable
    /\ imp' = [imp EXCEPT !.pc = IF imp.pc = "gotIt" THEN "popover" ELSE "verify"]
    /\ UNCHANGED screen

(* await waitForAnySelector(page, [account-menu-icon, eth-overview-send],     *)
(* 5000).catch(() => {}): importWallet returns either way                     *)
ImportVerify ==
    /\ ImportFrame
    /\ imp.pc = "verify"
    /\ Stable
    /\ imp' = [imp EXCEPT !.pc = "returned",
                  !.saw = @ \cup { m \in {"account-menu-icon"} : Present(m) }]
    /\ UNCHANGED screen

(* The steps of importWallet and of the page it drives *)
ImportStep ==
    \/ Render
    \/ \E c \in ImportClicks : ImportClick(c)
    \/ ImportLoaded \/ ImportOnboarding \/ ImportTermsCount \/ ImportTermsIsChecked
    \/ ImportTermsClick \/ ImportInteractable \/ ImportSelect \/ ImportBranch
    \/ ImportRewait \/ ImportMetricsCount \/ ImportSrpWait \/ ImportFillWord
    \/ ImportWordCount \/ ImportWordFill \/ ImportPasswordWait
    \/ \E m \in {"create-password-new", "create-password-confirm"} : ImportFillPassword(m)
    \/ ImportPasswordTerms \/ ImportCompleteWait \/ ImportPinCount \/ ImportDismiss
    \/ ImportVerify

NextImport ==
    \/ \E seed \in SeedPhrases, build \in {"part_001", "metamask.ts"}, terms \in BOOLEAN :
            ImportCall(seed, build, terms)
    \/ Render
    \/ \E c \in ImportClicks : ImportClick(c)
    \/ ImportLoaded
    \/ ImportOnboarding
    \/ ImportTermsCount
    \/ ImportTermsIsChecked
    \/ ImportTermsClick
    \/ ImportInteractable
    \/ ImportSelect
    \/ ImportBranch
    \/ ImportRewait
    \/ ImportMetricsCount
    \/ ImportSrpWait
    \/ ImportFillWord
    \/ ImportWordCount
    \/ ImportWordFill
    \/ ImportPasswordWait
    \/ \E m \in {"create-password-new", "create-password-confirm"} : ImportFillPassword(m)
    \/ ImportPasswordTerms
    \/ ImportCompleteWait
    \/ ImportPinCount
    \/ ImportDismiss
    \/ ImportVerify

-----------------------------------------------------------------------------
(* The page a controller method works on. The methods that answer a prompt  *)
(* look for a notification page among context.pages() when they are         *)
(* invoked; unlock, addNetwork and switchNetwork hold metamaskPage only.    *)
(* Pages open and close between any two awaits.                             *)

(* What the choice of the target page leaves alone *)
SurfaceFrame ==
    UNCHANGED <<regVars, walVars, surface, trail, boot, proc, dom, wait, screen, imp, form, addNet, retry>>

(* The pages of the context besides the wallet page: two notification       *)
(* popups and a page of another address                                     *)
NotificationPages == {"notification1", "notification2"}

CtxPages == NotificationPages \cup {"other"}

(* p.url().includes("notification") *)
UrlIncludesNotification(p) == p \in NotificationPages

(* context.pages().find(p => p.url().includes("notification")): the first   *)
(* page in order that matches; "none" for undefined                         *)
FindNotificationPage ==
    LET hits == { j \in 1..Len(ctx) : UrlIncludesNotification(ctx[j]) }
    IN IF hits = {} THEN "none" ELSE ctx[CHOOSE j \in hits : \A h \in hits : j <= h]

(* The methods that start with findNotificationPage(context) *)
PromptMethods ==
    {"connectToDapp", "confirmSignature", "rejectSignature",
     "confirmTransaction", "rejectTransaction"}

(* The methods that hold metamaskPage only *)
HomeMethods == {"unlock", "addNetwork", "switchNetwork"}

(* ScansForPopup with every method looking for a notification page *)
ScansForPopup_All(op) == TRUE

(* The method's first statement is findNotificationPage(context) *)
ScansForPopup(op) == op \in PromptMethods

(* StepPage with the notification page looked up again at every step *)
StepPage_Rescan(target) ==
    IF target = "home" THEN "home"
    ELSE IF FindNotificationPage = "none" THEN "home" ELSE FindNotificationPage

(* targetPage.click(...), targetPage.evaluate(...): the page a step works on *)
StepPage(target) == target

(* The awaited UI steps of each method in order; the steps of addNetwork    *)
(* that depend on the form and on the request body are left out. "be": its rejection is swallowed; "fatal": its   *)
(* rejection leaves the method; "try": its rejection runs the step after    *)
(* it, which is skipped otherwise: "else", whose rejection leaves the       *)
(* method, or "or", whose rejection is swallowed                            *)
(* MethodSteps with every rejection swallowed *)
MethodSteps_BestEffort(op) ==
    CASE op \in {"confirmTransaction", "rejectTransaction"} -> <<"be">>
      [] op = "rejectSignature" -> <<"be", "be">>
      [] op \in {"confirmSignature", "unlock"} -> <<"be", "be", "be", "be">>
      [] op \in {"connectToDapp", "switchNetwork"} -> <<"be", "be", "be", "be", "be">>
      [] op = "addNetwork" -> [j \in 1..16 |-> "be"]

MethodSteps(op) ==
    CASE op = "connectToDapp" -> <<"be", "be", "be", "be", "be">>
      [] op = "confirmSignature" -> <<"be", "be", "try", "else">>
      [] op = "rejectSignature" -> <<"try", "else">>
      [] op = "confirmTransaction" -> <<"fatal">>
      [] op = "rejectTransaction" -> <<"fatal">>
      [] op = "unlock" -> <<"fatal", "fatal", "fatal", "fatal">>
      [] op = "addNetwork" ->
            <<"fatal", "fatal", "fatal", "fatal", "fatal", "fatal", "fatal", "be",
              "fatal", "be", "try", "or", "be", "fatal", "fatal", "be">>
      [] op = "switchNetwork" -> <<"fatal", "fatal", "try", "else", "be">>

(* What each step does *)
StepNames(op) ==
    CASE op = "connectToDapp" ->
            <<"waitNext", "clickNext", "waitConnect", "clickConnect", "waitDetached">>
      [] op = "confirmSignature" -> <<"scrollEvaluate", "scrollClick", "click", "fallback">>
      [] op = "rejectSignature" -> <<"click", "fallback">>
      [] op = "confirmTransaction" -> <<"click">>
      [] op = "rejectTransaction" -> <<"click">>
      [] op = "unlock" -> <<"count", "fill", "click", "waitMarker">>
      [] op = "addNetwork" ->
            <<"goto", "load", "waitForm", "waitField", "fillName", "fillRpc", "fillChainId",
              "pollValidation", "fillSymbol", "pollSave", "click", "force", "waitMarker",
              "countDismiss", "clickDismiss", "popover">>
      [] op = "switchNetwork" ->
            <<"open", "waitEntry", "clickText", "clickItem", "pollDisplay">>

(* FatalKinds without the fallback of a chain *)
FatalKinds_Direct == {"fatal"}

(* The steps whose rejection nothing catches inside the method *)
FatalKinds == {"fatal", "else"}

(* A page opens: it is the last of context.pages() *)
CtxPageOpens(p) ==
    /\ SurfaceFrame
    /\ \A j \in 1..Len(ctx) : ctx[j] # p
    /\ ctx' = Append(ctx, p)
    /\ UNCHANGED call

(* A page closes *)
CtxPageCloses(p) ==
    /\ SurfaceFrame
    /\ \E j \in 1..Len(ctx) : ctx[j] = p
    /\ ctx' = SelectSeq(ctx, LAMBDA q : q # p)
    /\ UNCHANGED call

(* A method of the controller is invoked: const notificationPage =          *)
(* findNotificationPage(context); const targetPage = notificationPage ||    *)
(* metamaskPage, up to its first await                                      *)
Invoke(op) ==
    /\ SurfaceFrame
    /\ call.op = "none"
    /\ call' = [IdleCall EXCEPT !.op = op, !.k = 1,
                   !.popupAtCall = FindNotificationPage # "none",
                   !.target = IF ScansForPopup(op) /\ FindNotificationPage # "none"
                              THEN FindNotificationPage ELSE "home"]
    /\ UNCHANGED ctx

(* The page is open: the wallet page, or a page of the context *)
PageIsOpen(p) == p = "home" \/ \E j \in 1..Len(ctx) : ctx[j] = p

(* Where the method stands after step k settled; when the method throws    *)
(* the handler's catch answers 500, when it returns { success: true }       *)
AfterStep(c, ok) ==
    LET kind == MethodSteps(c.op)[c.k]
        last == Len(MethodSteps(c.op))
        skip == IF ok /\ kind = "try" THEN 2 ELSE 1
        name == StepNames(c.op)[c.k]
        d == [c EXCEPT !.did = @ \cup {name}, !.bad = IF ok THEN @ ELSE @ \cup {name},
                       !.failed = ~ok]
    IN IF ~ok /\ kind \in FatalKinds
       THEN [d EXCEPT !.result = "thrown", !.status = 500]
       ELSE IF c.k + skip > last
       THEN [d EXCEPT !.result = "returned", !.status = 200]
       ELSE [d EXCEPT !.k = c.k + skip]

(* An awaited UI step settles: it worked on the method's page; it rejects   *)
(* when the element is not there, and always on a page that has closed      *)
UiStep(ok) ==
    /\ SurfaceFrame
    /\ call.op # "none" /\ call.result = "none"
    /\ LET page == StepPage(call.target)
       IN /\ ok => PageIsOpen(page)
          /\ call' = AfterStep([call EXCEPT !.on = page], ok)
    /\ UNCHANGED ctx

(* The method has returned or thrown; the controller takes the next call *)
CallEnds ==
    /\ SurfaceFrame
    /\ call.result # "none"
    /\ call' = IdleCall
    /\ UNCHANGED ctx

NextSurface ==
    \/ \E p \in CtxPages : CtxPageOpens(p)
    \/ \E p \in CtxPages : CtxPageCloses(p)
    \/ \E op \in PromptMethods \cup HomeMethods : Invoke(op)
    \/ \E ok \in BOOLEAN : UiStep(ok)
    \/ CallEnds

-----------------------------------------------------------------------------
(* addNetwork on the add-network form, await by await: the validation poll, *)
(* the remaining fills, the save poll, the save click with its fallbacks,   *)
(* the confirmation wait and the dismissal of popups. The wallet validates  *)
(* the chain id on its own and the wallet page can close at any time.       *)

NetFrame ==
    UNCHANGED <<regVars, walVars, surface, trail, boot, proc, dom, wait, screen, imp, ctx, call, retry>>

(* The wallet changes what the form shows *)
FormChanges(f) ==
    /\ NetFrame
    /\ form.open
    /\ form' = [form EXCEPT ![f] = ~@]
    /\ UNCHANGED addNet

(* The wallet page closes or crashes: nothing is on it any more *)
WalletPageCloses ==
    /\ NetFrame
    /\ form.open
    /\ addNet.pc # "idle"
    /\ form' = [BlankForm EXCEPT !.open = FALSE]
    /\ UNCHANGED addNet

(* A step that a rejection leaves through: addNetwork throws and the        *)
(* handler's catch answers 500                                              *)
NetThrows(n) == [n EXCEPT !.pc = "done", !.result = "thrown", !.status = 500]

(* addNetwork returns and the handler answers { success: true } *)
NetReturns(n) == [n EXCEPT !.pc = "done", !.result = "returned", !.status = 200]

(* The step was attempted, and rejected or not *)
Attempt(n, step, ok) ==
    [n EXCEPT !.did = Append(@, step), !.failed = IF ok THEN @ ELSE @ \cup {step}]

(* StillValidating with the loading indicator ignored *)
StillValidating_Never(hasSpinner) == FALSE

(* if (hasSpinner) return false *)
StillValidating(hasSpinner) == hasSpinner

(* POST /metamask/add-network with a controller: addNetwork is called *)
NetCall(explorer) ==
    /\ addNet.pc = "idle"
    /\ NetFrame
    /\ addNet' = [IdleNet EXCEPT !.pc = "form", !.explorer = explorer]
    /\ UNCHANGED form

(* goto, waitForLoadState, the wait for the form, the click on "Add a       *)
(* network manually", and the fills of name, RPC URL and chain id: the      *)
(* first poll starts, or one of them rejected                               *)
NetFormFilled(ok) ==
    /\ addNet.pc = "form"
    /\ NetFrame
    /\ ok => form.open
    /\ addNet' = IF ok THEN [Attempt(addNet, "chainId", TRUE) EXCEPT !.pc = "isEnabled", !.t = 0]
              ELSE NetThrows(addNet)
    /\ UNCHANGED form

(* Validation poll: const isEnabled = await saveButton.isEnabled().catch(() *)
(* => false); if (isEnabled) return true                                    *)
NetValidationEnabled(d) ==
    /\ addNet.pc = "isEnabled"
    /\ NetFrame
    /\ LET isEnabled == form.open /\ form.enabled
           n == [addNet EXCEPT !.t = Elapsed(addNet.t, d), !.isEnabled = isEnabled,
                            !.hasSpinner = FALSE, !.hasChainIdError = FALSE]
       IN addNet' = IF isEnabled THEN [n EXCEPT !.poll = "true", !.pc = "fillSymbol"]
                 ELSE [n EXCEPT !.pc = "hasSpinner"]
    /\ UNCHANGED form

(* Validation poll: const hasSpinner = (await locator(".spinner,            *)
(* .loading").count()) > 0; if (hasSpinner) return false. On a closed page  *)
(* count() rejects, pollUntil rejects and .catch(() => {}) swallows it      *)
NetValidationSpinner ==
    /\ addNet.pc = "hasSpinner"
    /\ NetFrame
    /\ addNet' = IF ~form.open THEN [addNet EXCEPT !.poll = "error", !.pc = "fillSymbol"]
              ELSE IF StillValidating(form.spinner)
              THEN [addNet EXCEPT !.hasSpinner = form.spinner, !.pc = "interval"]
              ELSE [addNet EXCEPT !.hasSpinner = form.spinner, !.pc = "hasChainIdError"]
    /\ UNCHANGED form

(* Validation poll: return hasChainIdError *)
NetValidationError ==
    /\ addNet.pc = "hasChainIdError"
    /\ NetFrame
    /\ addNet' = IF ~form.open THEN [addNet EXCEPT !.poll = "error", !.pc = "fillSymbol"]
              ELSE IF form.chainErr
              THEN [addNet EXCEPT !.hasChainIdError = TRUE, !.poll = "true", !.pc = "fillSymbol"]
              ELSE [addNet EXCEPT !.pc = "interval"]
    /\ UNCHANGED form

(* Validation poll: waitForTimeout(200) resolves and the loop condition is  *)
(* tested; when the time is up pollUntil throws and .catch(() => {})        *)
(* swallows it                                                              *)
NetValidationInterval ==
    /\ addNet.pc = "interval"
    /\ NetFrame
    /\ LET t == Elapsed(addNet.t, 1)
       IN addNet' = IF WithinTimeout(t)
                 THEN [addNet EXCEPT !.t = t, !.slept = TRUE, !.pc = "isEnabled"]
                 ELSE [addNet EXCEPT !.t = t, !.slept = TRUE, !.poll = "timeout",
                                  !.pc = "fillSymbol"]
    /\ UNCHANGED form

(* await symbolInput.fill(network.symbol) *)
NetFillSymbol(ok) ==
    /\ addNet.pc = "fillSymbol"
    /\ NetFrame
    /\ ok => form.open
    /\ addNet' = IF ~ok THEN NetThrows(Attempt(addNet, "symbol", FALSE))
              ELSE [Attempt(addNet, "symbol", TRUE) EXCEPT
                        !.pc = IF addNet.explorer THEN "fillExplorer" ELSE "saveEnabled",
                        !.t = 0]
    /\ UNCHANGED form

(* if (network.blockExplorerUrl) await explorerInput.fill(...) *)
NetFillExplorer(ok) ==
    /\ addNet.pc = "fillExplorer"
    /\ NetFrame
    /\ ok => form.open
    /\ addNet' = IF ~ok THEN NetThrows(Attempt(addNet, "explorer", FALSE))
              ELSE [Attempt(addNet, "explorer", TRUE) EXCEPT !.pc = "saveEnabled", !.t = 0]
    /\ UNCHANGED form

(* Save poll: return await saveButton.isEnabled().catch(() => false) *)
NetSaveEnabled(d) ==
    /\ addNet.pc = "saveEnabled"
    /\ NetFrame
    /\ addNet' = IF form.open /\ form.enabled
              THEN [addNet EXCEPT !.t = Elapsed(addNet.t, d), !.savePoll = "true", !.pc = "click"]
              ELSE [addNet EXCEPT !.t = Elapsed(addNet.t, d), !.pc = "saveInterval"]
    /\ UNCHANGED form

(* Save poll: waitForTimeout(100) resolves; after SHORT_TIMEOUT pollUntil   *)
(* throws and .catch(() => {}) swallows it                                  *)
NetSaveInterval ==
    /\ addNet.pc = "saveInterval"
    /\ NetFrame
    /\ LET t == Elapsed(addNet.t, 1)
       IN addNet' = IF WithinTimeout(t) THEN [addNet EXCEPT !.t = t, !.pc = "saveEnabled"]
                 ELSE [addNet EXCEPT !.t = t, !.savePoll = "timeout", !.pc = "click"]
    /\ UNCHANGED form

(* try { await saveButton.click({ timeout: SHORT_TIMEOUT }) } *)
NetSaveClick(ok) ==
    /\ addNet.pc = "click"
    /\ NetFrame
    /\ ok => form.open
    /\ addNet' = [Attempt(addNet, "click", ok) EXCEPT !.pc = IF ok THEN "confirm" ELSE "force"]
    /\ UNCHANGED form

(* catch { await saveButton.click({ force: true }).catch(() => {            *)
(* metamaskPage.keyboard.press("Enter") }) }: the handler starts the key    *)
(* press and returns without its promise                                    *)
NetForceClick(ok) ==
    /\ addNet.pc = "force"
    /\ NetFrame
    /\ ok => form.open
    /\ addNet' = IF ok THEN [Attempt(addNet, "force", TRUE) EXCEPT !.pc = "confirm"]
              ELSE [Attempt(Attempt(addNet, "force", FALSE), "keyboard", TRUE) EXCEPT
                        !.pc = "confirm", !.press = "pending"]
    /\ UNCHANGED form

(* The promise of keyboard.press("Enter") settles: it rejects when the page *)
(* has closed, and no handler is attached to it                             *)
NetPressSettles ==
    /\ addNet.press = "pending"
    /\ NetFrame
    /\ addNet' = IF form.open THEN [addNet EXCEPT !.press = "resolved"]
              ELSE [addNet EXCEPT !.press = "rejected", !.unhandled = TRUE,
                               !.failed = @ \cup {"keyboard"}]
    /\ UNCHANGED form

(* await waitForAnySelector(metamaskPage, [...], DEFAULT_TIMEOUT).catch(()  *)
(* => {}): a marker of the save was found, or none was in time              *)
NetConfirmWait(ok) ==
    /\ addNet.pc = "confirm"
    /\ NetFrame
    /\ ok => form.open
    /\ addNet' = [Attempt(addNet, "marker", ok) EXCEPT !.pc = "dismissCount"]
    /\ UNCHANGED form

(* if ((await dismissBtn.count()) > 0): count() rejects on a closed page *)
NetDismissCount(count) ==
    /\ addNet.pc = "dismissCount"
    /\ NetFrame
    /\ addNet' = IF ~form.open THEN NetThrows(addNet)
              ELSE [addNet EXCEPT !.pc = IF count > 0 THEN "dismiss" ELSE "popover"]
    /\ UNCHANGED form

(* await dismissBtn.first().click(), with no catch *)
NetDismissClick(ok) ==
    /\ addNet.pc = "dismiss"
    /\ NetFrame
    /\ ok => form.open
    /\ addNet' = IF ok THEN [Attempt(addNet, "dismiss", TRUE) EXCEPT !.pc = "popover"]
              ELSE NetThrows(Attempt(addNet, "dismiss", FALSE))
    /\ UNCHANGED form

(* await metamaskPage.click('[data-testid="popover-close"]').catch(() =>    *)
(* {}); addNetwork returns                                                  *)
NetPopoverClose(ok) ==
    /\ addNet.pc = "popover"
    /\ NetFrame
    /\ ok => form.open
    /\ addNet' = NetReturns(Attempt(addNet, "popover", ok))
    /\ UNCHANGED form

(* The request is answered and the key press has settled: the next call     *)
(* finds a fresh form                                                       *)
NetRecycle ==
    /\ addNet.pc = "done" /\ addNet.press # "pending"
    /\ NetFrame
    /\ addNet' = IdleNet
    /\ form' = BlankForm

(* A step of addNetwork *)
NetStep ==
    \/ \E ok \in BOOLEAN : NetFormFilled(ok)
    \/ \E d \in EvalTime : NetValidationEnabled(d)
    \/ NetValidationSpinner
    \/ NetValidationError
    \/ NetValidationInterval
    \/ \E ok \in BOOLEAN : NetFillSymbol(ok)
    \/ \E ok \in BOOLEAN : NetFillExplorer(ok)
    \/ \E d \in EvalTime : NetSaveEnabled(d)
    \/ NetSaveInterval
    \/ \E ok \in BOOLEAN : NetSaveClick(ok)
    \/ \E ok \in BOOLEAN : NetForceClick(ok)
    \/ NetPressSettles
    \/ \E ok \in BOOLEAN : NetConfirmWait(ok)
    \/ \E count \in {0, 1} : NetDismissCount(count)
    \/ \E ok \in BOOLEAN : NetDismissClick(ok)
    \/ \E ok \in BOOLEAN : NetPopoverClose(ok)

NextNetwork ==
    \/ \E f \in {"enabled", "spinner", "chainErr"} : FormChanges(f)
    \/ WalletPageCloses
    \/ \E explorer \in BOOLEAN : NetCall(explorer)
    \/ NetStep
    \/ NetRecycle

-----------------------------------------------------------------------------
(* Specifications *)

Init == InitRegistry /\ InitNoWallet /\ InitServing
Next == NextRegistry
Spec == Init /\ [][Next]_vars

InitW == InitRegistry /\ InitWallet /\ InitServing
SpecWallet == InitW /\ [][NextWallet]_vars

SpecShutdown == Init /\ [][NextShutdown]_vars

InitS == InitRegistry /\ InitStartup /\ InitProc /\ InitSurface /\ InitUi
SpecStartup == InitS /\ [][NextStartup]_vars

InitC == InitRegistry /\ InitController /\ InitServing
SpecController == InitC /\ [][NextController]_vars

SpecWait == Init /\ [][NextWait]_vars

SpecSurface == Init /\ [][NextSurface]_vars

SpecNetwork == Init /\ [][NextNetwork]_vars

SpecImport == Init /\ [][NextImport]_vars

(* Every awaited step of importWallet settles and the page renders *)
SpecImportFair == SpecImport /\ WF_vars(ImportStep)

(* Every awaited step of a utility settles *)
SpecWaitFair == SpecWait /\ WF_vars(WaitStep)

-----------------------------------------------------------------------------
(* Properties of the page registry *)

PostOk(q) == q.op = "post" /\ q.pc = "done" /\ q.status = 200

(* r takes a new request of kind op in this step *)
Arrives(r, op) == req[r].op = "idle" /\ req'[r].op = op

(* C1 (as stated): once POST /pages has answered targetId t for name n and  *)
(* that page has not closed since, a later POST /pages for n answers t at   *)
(* once, creates no page and leaves the registry unchanged.                 *)
C1_SameTargetOnLaterCall ==
    [][\A r1, r2 \in Slots :
        ( /\ PostOk(req[r1])
          /\ pageState[req[r1].page] = "open"
          /\ Arrives(r2, "post")
          /\ req'[r2].arg = JsString(req[r1].name) )
        => /\ PostOk(req'[r2])
           /\ req'[r2].targetId = req[r1].targetId
           /\ registry' = registry
           /\ pageState' = pageState]_vars

(* C2 (as stated): two overlapping POST /pages for the same unknown name    *)
(* both answer the same targetId, of the one page created for the name,     *)
(* which is the page the registry holds for it.                             *)
C2_ConcurrentCreateSerialized ==
    \A r1, r2 \in Slots :
        ( /\ r1 # r2
          /\ PostOk(req[r1]) /\ PostOk(req[r2])
          /\ r2 \in req[r1].peers )
        => /\ req[r1].targetId = req[r2].targetId
           /\ req[r1].page = req[r2].page

(* C3: when a registered page closes, by DELETE /pages/:name or by its own  *)
(* 'close' event, its name leaves the registry in that step, and GET /pages *)
(* answers exactly the names in the registry: the next listing excludes it. *)
C3_ClosedPageNotListed ==
    [][ /\ \A n \in DOMAIN registry :
            ( /\ pageState[registry[n].page] = "open"
              /\ pageState'[registry[n].page] = "closed" )
            => n \notin DOMAIN registry'
        /\ \A r \in Slots :
            Arrives(r, "list") =>
                req'[r].names = DOMAIN registry'
      ]_vars

C3_Witness ==
    \E r1, r2 \in Slots :
        /\ PostOk(req[r1]) /\ req[r1].name = NameA
        /\ pageState[req[r1].page] = "closed"
        /\ req[r2].op = "list" /\ req[r2].pc = "done"
        /\ NameA \notin req[r2].names
        /\ NameEsc \in req[r2].names

(* C4 (as stated): DELETE /pages/:name for a name that is not in the        *)
(* registry answers 404, closes no page and leaves the registry unchanged.  *)
C4_UnknownNameNotFound ==
    [][\A r \in Slots :
        ( Arrives(r, "delete") /\ req'[r].arg.v \notin DOMAIN registry )
        => /\ req'[r].pc = "done" /\ req'[r].status = 404
           /\ registry' = registry
           /\ pageState' = pageState]_vars

(* C5 (as stated): DELETE /pages/:name for a registered name closes that    *)
(* name's page, removes exactly that name's entry and answers 200; every    *)
(* other entry is left as it was.                                           *)
C5_CloseRegisteredName ==
    [][\A r \in Slots :
        /\ ( Arrives(r, "delete") /\ req'[r].arg.v \in DOMAIN registry )
           => /\ req'[r].pc = "closing"
              /\ req'[r].page = registry[req'[r].arg.v].page
        /\ ( req[r].op = "delete" /\ req[r].pc = "closing" /\ req'[r].pc = "done" )
           => /\ req'[r].status = 200
              /\ pageState'[req[r].page] = "closed"
              /\ DOMAIN registry' = DOMAIN registry \ {req[r].arg.v}
              /\ \A n \in DOMAIN registry' : registry'[n] = registry[n]]_vars

(* The names the interface accepts: strings of 1 to 256 characters *)
AcceptableName(b) == b.t = "string" /\ Len(b.v) >= 1 /\ Len(b.v) <= 256

(* C6: POST /pages answers 400 exactly for a name that is missing, not a    *)
(* string, empty or longer than 256 characters; a rejected request creates  *)
(* no page and leaves the registry unchanged.                               *)
C6_NameValidation ==
    [][\A r \in Slots :
        Arrives(r, "post") =>
            IF AcceptableName(req'[r].arg)
            THEN req'[r].status # 400 /\ req'[r].name = req'[r].arg.v
            ELSE /\ req'[r].pc = "done" /\ req'[r].status = 400
                 /\ registry' = registry
                 /\ pageState' = pageState
                 /\ listeners' = listeners]_vars

C6_Witness ==
    \E r1, r2 \in Slots :
        /\ req[r1].op = "post" /\ req[r1].arg = JsString(NameTooLong)
        /\ req[r1].pc = "done" /\ req[r1].status = 400
        /\ PostOk(req[r2]) /\ req[r2].arg = JsString(NameMax)
        /\ NameMax \in DOMAIN registry

(* C7 (as stated): a POST /pages whose page creation timed out has failed   *)
(* with an error answered to its caller, and has stored no registry entry.  *)
C7_TimeoutReportedToCaller ==
    \A r \in Slots :
        ( req[r].threw = "Timeout" /\ req[r].pc \in {"done", "dropped"} )
        => /\ req[r].pc = "done" /\ req[r].status = 500
           /\ \A n \in DOMAIN registry : registry[n].page # req[r].page

(* C20 (as stated): a name leaves the registry only through DELETE          *)
(* /pages/:name for that name or through the close of the page its entry    *)
(* refers to; the close of any other page never removes it.                 *)
C20_RemovedOnlyByOwnPage ==
    [][\A n \in DOMAIN registry :
        n \notin DOMAIN registry' =>
            \/ \E r \in Slots :
                    /\ req[r].op = "delete" /\ req[r].pc = "closing"
                    /\ req[r].name = n /\ req'[r].pc = "done"
            \/ /\ pageState[registry[n].page] = "open"
               /\ pageState'[registry[n].page] = "closed"]_vars

InResolution == { req[r].page : r \in { q \in Slots : req[q].pc = "targetId" } }

(* C22 (as stated): every open page that POST /pages created is referred to *)
(* by exactly one registry entry, whatever the outcome of the request that  *)
(* created it.                                                              *)
C22_OpenPagesTracked ==
    \A p \in Pages :
        ( pageState[p] = "open" /\ p \notin InResolution )
        => Cardinality({ n \in DOMAIN registry : registry[n].page = p }) = 1

-----------------------------------------------------------------------------
(* Properties of the wallet endpoints *)

WArrives(r) == wreq[r].op = "idle" /\ wreq'[r].op # "idle"

(* C8: while no controller exists, each of the seven controller endpoints   *)
(* answers 400 "MetaMask not initialized", performs no UI step and          *)
(* constructs no controller.                                                *)
C8_NotInitialized ==
    [][\A r \in Slots :
        ( WArrives(r) /\ wreq'[r].op \in ControllerOps
          /\ metamaskController = NoController )
        => /\ wreq'[r].pc = "done" /\ wreq'[r].status = 400
           /\ wreq'[r].error = "MetaMask not initialized"
           /\ wreq'[r].ui = 0
           /\ UNCHANGED <<metamaskController, ctl, rendered, walletState, typed>>]_vars

C8_Witness ==
    /\ metamaskController = NoController
    /\ extensionId = MetaMaskId
    /\ \E r \in Slots :
        /\ wreq[r].op = "switchNetwork" /\ wreq[r].pc = "done"
        /\ wreq[r].status = 400 /\ wreq[r].ui = 0

(* Controller instances constructed so far, each bound to its own wallet page *)
Controllers == { w \in WPages : ctl[w] = "ctl" }

(* C9 (as stated): in every reachable state at most one controller instance *)
(* exists, bound to at most one wallet page.                                *)
C9_SingleController == Cardinality(Controllers) <= 1

(* C10: unlock that finds no lock screen returns success, performs no fill  *)
(* or click and leaves the wallet as it was.                                *)
C10_UnlockNoOp ==
    [][\A r \in Slots :
        ( /\ wreq[r].op = "unlock" /\ wreq[r].pc = "unlockCheck"
          /\ wreq'[r].pc # "unlockCheck"
          /\ ~LockScreenShown(wreq[r].ctl) )
        => /\ wreq'[r].pc = "done" /\ wreq'[r].status = 200
           /\ wreq'[r].ui = 0
           /\ UNCHANGED <<walletState, typed, rendered>>]_vars

C10_Witness ==
    /\ walletState = "unlocked"
    /\ \E r \in Slots :
        /\ wreq[r].op = "unlock" /\ wreq[r].pc = "done" /\ wreq[r].status = 200
        /\ wreq[r].ui = 0
        /\ MainScreenShown(wreq[r].ctl)

(* C11: unlock that finds the lock screen fills the password, then clicks   *)
(* submit, then waits for the main-screen marker, in this order; a wait     *)
(* that ends without the marker, like a failed fill or click, is answered   *)
(* 500, and 200 is answered only with the marker on the page.               *)
C11_UnlockSequence ==
    [][\A r \in Slots :
        LET q == wreq[r]
            n == wreq'[r]
            failed == n.pc = "done" /\ n.status = 500
        IN  ( q.op = "unlock" /\ n.pc # q.pc ) =>
            /\ ( q.pc = "unlockCheck" /\ LockScreenShown(q.ctl) ) => n.pc = "fill"
            /\ q.pc = "fill" =>
                    \/ n.pc = "click" /\ typed'[q.ctl] = q.pw /\ n.ui = 1
                    \/ failed
            /\ q.pc = "click" => ( n.pc = "wait" /\ n.ui = 2 ) \/ failed
            /\ q.pc = "wait" =>
                    /\ n.pc = "done"
                    /\ n.status = IF MainScreenShown(q.ctl) THEN 200 ELSE 500]_vars

C11_Witness ==
    /\ walletState = "locked"
    /\ \E r \in Slots :
        /\ wreq[r].op = "unlock" /\ wreq[r].pc = "done"
        /\ wreq[r].status = 500 /\ wreq[r].ui = 2
        /\ LockScreenShown(wreq[r].ctl)

(* C12: POST /metamask/unlock answers 400 "MetaMask not available" exactly  *)
(* when no controller exists and the extension id or the password is        *)
(* missing; otherwise it answers 200 when unlock returns and 500 when the   *)
(* controller's creation or unlock throws.                                  *)
C12_UnlockEndpoint ==
    [][\A r \in Slots :
        /\ ( WArrives(r) /\ wreq'[r].op = "unlock" ) =>
                IF /\ metamaskController = NoController
                   /\ ( extensionId = NoExtension \/ wreq'[r].pw = PwMissing )
                THEN /\ wreq'[r].pc = "done" /\ wreq'[r].status = 400
                     /\ wreq'[r].error = "MetaMask not available"
                ELSE wreq'[r].pc \in {"create", "unlockCheck"}
        /\ ( /\ wreq[r].op = "unlock"
             /\ wreq[r].pc \notin {"idle", "done"}
             /\ wreq'[r].pc = "done" ) =>
                /\ wreq'[r].status \in {200, 500}
                /\ wreq[r].pc = "create" => wreq'[r].status = 500]_vars

C12_Witness ==
    /\ extensionId = MetaMaskId
    /\ \E r1, r2 \in Slots :
        /\ wreq[r1].op = "unlock" /\ wreq[r1].pc = "done" /\ wreq[r1].status = 400
        /\ wreq[r1].pw = PwMissing
        /\ wreq[r2].op = "unlock" /\ wreq[r2].pc = "done" /\ wreq[r2].status = 200
        /\ wreq[r2].ui = 2

(* C18 (as stated): the isLocked field of GET /metamask/status is false     *)
(* only if the wallet is unlocked: it is true whenever the wallet is locked *)
(* or uninitialized.                                                        *)
C18_IsLockedReflectsWallet ==
    [][\A r \in Slots :
        ( WArrives(r) /\ wreq'[r].op = "status" /\ ~wreq'[r].isLocked )
        => walletState = "unlocked"]_vars

(* C38 (as stated): when a request to the unlock endpoint that found no     *)
(* controller is answered 500, and no other request has set a controller in  *)
(* the meantime, the controller is unset afterwards: GET / does not say      *)
(* metamaskInitialized and GET /metamask/status says isLocked.               *)
C38_FailedUnlockLeavesNoController ==
    [][\A r \in Slots :
        ( /\ wreq[r].op = "unlock" /\ wreq[r].fresh
          /\ metamaskController \in {NoController, wreq[r].ctl}
          /\ wreq[r].pc # "done" /\ wreq'[r].pc = "done" /\ wreq'[r].status = 500 )
        => /\ metamaskController' = NoController
           /\ ~MetaMaskInitialized'
           /\ StatusIsLocked']_vars

-----------------------------------------------------------------------------
(* Properties of the controller methods *)

(* C13: connectToDapp that finds neither a notification popup nor a         *)
(* connection prompt completes without error: every wait and click of it    *)
(* that finds nothing is swallowed, changes nothing and is followed by the  *)
(* next step, and the call is answered 200.                                 *)
C13_ConnectBestEffort ==
    [][\A r \in Slots :
        LET q == wreq[r]
            n == wreq'[r]
        IN  ( /\ q.op = "connectToDapp" /\ q.pc \notin {"idle", "done"}
              /\ n.pc # q.pc
              /\ ~PromptOn(q.target) )
            => /\ n.status # 500
               /\ n.pc = "done" => n.status = 200
               /\ n.ui = q.ui
               /\ surface' = surface]_vars

C13_Witness ==
    /\ ~surface.popup /\ surface.prompt = "none"
    /\ \E r \in Slots :
        /\ wreq[r].op = "connectToDapp" /\ wreq[r].pc = "done"
        /\ wreq[r].status = 200 /\ wreq[r].ui = 0 /\ wreq[r].target = "home"

(* C16 (as stated): an add-network request that lacks a required field is   *)
(* rejected as a validation error before any side effect: it performs no    *)
(* navigation, fill or click, and it is answered 400.                       *)
C16_MissingFieldsRejected ==
    \A r \in Slots :
        ( wreq[r].op = "addNetwork" /\ ~(RequiredFields \subseteq wreq[r].body) )
        => /\ wreq[r].ui = 0
           /\ wreq[r].pc = "done" => wreq[r].status = 400

-----------------------------------------------------------------------------
(* Properties of startup *)

(* C14: when serve() has finished its initialisation with the extension     *)
(* found: if the unlock screen was detected and a password supplied, a      *)
(* controller exists and unlock was invoked on it; if no unlock screen was  *)
(* detected and seed phrase and password were supplied, the import ran      *)
(* first, the controller was constructed only after it succeeded and the    *)
(* startup network was added only after that, and only if configured; in    *)
(* every other case there is no controller and no wallet step was taken.    *)
C14_StartupBranches ==
    ( boot.pc = "serving" /\ boot.extensionPath /\ extensionId # NoExtension ) =>
        IF boot.detected /\ boot.walletPassword # PwMissing
        THEN /\ metamaskController # NoController
             /\ boot.steps = <<"controller", "unlock">>
        ELSE IF ~boot.detected /\ boot.seedPhrase /\ boot.walletPassword # PwMissing
        THEN /\ boot.steps # <<>> /\ boot.steps[1] = "import"
             /\ metamaskController # NoController =>
                    /\ ~boot.importFailed
                    /\ SubSeq(boot.steps, 1, 2) = <<"import", "controller">>
             /\ metamaskController = NoController => Len(boot.steps) = 1
             /\ Len(boot.steps) > 2 =>
                    /\ boot.networkConfig
                    /\ boot.steps = <<"import", "controller", "addNetwork">>
        ELSE /\ metamaskController = NoController
             /\ boot.steps = <<>>
             /\ \A w \in WPages : ctl[w] = "none"

C14_Witness ==
    /\ boot.pc = "serving" /\ ~boot.detected
    /\ boot.steps = <<"import", "controller", "addNetwork">>
    /\ metamaskController # NoController

(* C15: a failure of importWallet during startup is caught and logged:      *)
(* serve() does not fail on it, the server starts, the controller stays     *)
(* unset and the controller endpoints then answer 400 "MetaMask not         *)
(* initialized".                                                            *)
C15_ImportFailureCaught ==
    boot.importFailed =>
        /\ boot.pc \in {"caught", "serving"}
        /\ boot.pc = "serving" => boot.logged
        /\ metamaskController = NoController
        /\ \A r \in Slots :
            wreq[r].pc = "done" =>
                wreq[r].status = 400 /\ wreq[r].error = "MetaMask not initialized"

C15_Witness ==
    /\ boot.importFailed /\ boot.pc = "serving" /\ boot.logged
    /\ \E r \in Slots :
        /\ wreq[r].op = "addNetwork" /\ wreq[r].pc = "done" /\ wreq[r].status = 400

-----------------------------------------------------------------------------
(* Properties of shutdown *)

(* No page of the browser context is open or still being created *)
AllPagesClosed == \A p \in Pages : pageState[p] \notin {"open", "creating"}

(* C17: however many signals, errors and stop() calls trigger it, the body  *)
(* of cleanup starts at most once, and when it has completed every page and *)
(* the browser context are closed and the registry is empty.                *)
C17_CleanupOnce ==
    /\ proc.runs <= 1
    /\ proc.pc = "done" =>
            /\ registry = <<>>
            /\ AllPagesClosed
            /\ proc.context = "closed"

C17_Witness ==
    /\ proc.pc = "done" /\ proc.runs = 1
    /\ proc.callers = {"signal", "stop"}
    /\ proc.visited # {}
    /\ \E p \in Pages : pageState[p] = "closed"

(* C19 (as stated): once errorHandler has run for an uncaught exception or  *)
(* an unhandled rejection, the process exits only with status 1 and only    *)
(* after the cleanup has completed, with every page and the context closed. *)
C19_ErrorCleanupThenExit ==
    ( "error" \in proc.callers /\ proc.exit # "none" ) =>
        /\ proc.exit = "1"
        /\ proc.pc = "done"
        /\ AllPagesClosed
        /\ proc.context = "closed"

(* C37 (as stated): whenever signalHandler or errorHandler ends the process, *)
(* the cleanup has finished: every page and the context are closed, also     *)
(* when the handler ran for a second signal or error during a cleanup.       *)
C37_ExitAfterCleanup ==
    [][( proc.exit = "none" /\ proc'.exit # "none" /\ proc.handlers ) =>
            /\ proc'.pc = "done"
            /\ proc'.context = "closed"
            /\ AllPagesClosed']_vars

-----------------------------------------------------------------------------
(* Properties of the waiting utilities *)

(* A call of waitForAnySelector has just counted a selector *)
JustCounted == wait.fn = "any" /\ wait.pc = "count" /\ wait' # wait

(* C25: waitForAnySelector counts the selectors in declaration order in each *)
(* pass; it returns index k exactly when selector k is the first it finds    *)
(* matching: every selector declared before k was counted 0 in that pass and *)
(* no selector was found matching in an earlier pass; it goes on only past   *)
(* selectors found not matching; it throws only when the timeout has elapsed *)
(* after a pass in which every selector was counted 0.                       *)
C25_FirstInDeclarationOrder ==
    /\ [](wait.fn = "any" =>
            /\ wait.pc = "count" => wait.seen = 1..(wait.i - 1)
            /\ wait.result = "index" =>
                   /\ wait.seen = 1..(wait.idx - 1)
                   /\ wait.found = "true"
            /\ wait.result = "timeout" =>
                   /\ wait.seen = Selectors
                   /\ wait.found = "false"
                   /\ wait.t >= WaitTimeout)
    /\ [][JustCounted =>
            IF wait'.result = "index"
            THEN dom.sel[wait'.idx]
            ELSE \A k \in wait'.seen \ wait.seen : ~dom.sel[k]]_vars

(* Two selectors match in one pass; the second came to match first, the first wins *)
C25_Witness ==
    /\ wait.fn = "any" /\ wait.result = "index" /\ wait.idx = 1
    /\ dom.first = 2 /\ dom.sel[1] /\ dom.sel[2]
    /\ wait.t > 0

(* C26 (as stated): waitForInteractable returns normally only if isEnabled() *)
(* answered true for the visible element; an element that stays disabled     *)
(* until the timeout makes it fail.                                          *)
C26_ReturnsOnlyWhenEnabled ==
    (wait.fn = "interactable" /\ wait.result = "returned") => wait.found = "true"

(* How a call of pollUntil has ended *)
PollEnded == wait.fn = "poll" /\ wait.pc = "done"

-----------------------------------------------------------------------------
(* Properties of importWallet *)

(* The metrics opt-out screen is shown to a running importWallet *)
MetricsShown == screen.at = "metrics" /\ imp.pc # "thrown"

(* The seed-phrase entry: the loop over the words is about to start *)
SeedEntry == imp.pc = "words" /\ imp.i = 0

(* C28: whether the metrics opt-out screen shows after the import selection  *)
(* (importWallet then declines it) or the seed-phrase form shows at once,    *)
(* importWallet reaches the seed-phrase entry, and in the same state: on the *)
(* seed-phrase form, its marker observed, nothing filled yet.                *)
C28_BothBranchesReachSeedEntry ==
    /\ MetricsShown ~> (SeedEntry /\ "metametrics-no-thanks" \in imp.clicked)
    /\ (imp.pc = "branch" /\ screen.at = "srp")
           ~> (SeedEntry /\ "metametrics-no-thanks" \notin imp.clicked)
    /\ [](SeedEntry =>
            /\ screen.at = "srp"
            /\ "import-srp__srp-word-0" \in imp.saw
            /\ imp.fills = <<>> /\ imp.pwd = {}
            /\ imp.words = SeedWords(imp.seed))

(* The terms-agreement screen came first, then the metrics screen, which was declined *)
C28_Witness ==
    /\ SeedEntry /\ imp.branch >= 2
    /\ "metametrics-no-thanks" \in imp.clicked

(* The clicks of the completion state *)
CompletionClicks ==
    {"onboarding-complete-done", "pin-extension-next", "pin-extension-done"}

(* The elements clicked in this step *)
JustClicked == imp'.clicked \ imp.clicked

(* C29: the states of importWallet come in order, each behind its marker:    *)
(* the import button is clicked only after the onboarding marker was seen    *)
(* and the terms checkbox, if there is one, was ticked; a terms-agreement    *)
(* screen matched first at the branch wait is agreed to and the flow waits   *)
(* again before it goes on; a seed-phrase input is filled only after the     *)
(* seed-phrase marker was seen, a password field only after the password     *)
(* marker, and the completion clicks come only after a completion marker.    *)
C29_GatedOrder ==
    /\ [][/\ "onboarding-import-wallet" \in JustClicked =>
                /\ imp.saw \cap {"onboarding-import-wallet",
                                 "onboarding-terms-checkbox"} # {}
                /\ screen.terms => "onboarding-terms-checkbox" \in imp.clicked
          /\ (imp.branch = -1 /\ imp'.branch >= 2) => imp'.pc = "agree1"
          /\ imp'.fills # imp.fills => "import-srp__srp-word-0" \in imp.saw
          /\ imp'.pwd # imp.pwd => "create-password-new" \in imp.saw
          /\ JustClicked \cap CompletionClicks # {} => "completion" \in imp.saw]_vars
    /\ []((imp.branch >= 2 /\ imp.pc \notin {"agree1", "agree2", "rewait", "thrown"}) =>
            /\ "rewait" \in imp.saw
            /\ imp.clicked \cap {"onboarding-import-button", "I agree"} # {})

C29_Witness ==
    /\ imp.pc = "returned" /\ imp.branch >= 2
    /\ "onboarding-terms-checkbox" \in imp.clicked
    /\ "metametrics-no-thanks" \in imp.clicked
    /\ Len(imp.fills) = 2 /\ imp.pwd # {}
    /\ "pin-extension-done" \in imp.clicked

(* The words of a phrase: its maximal runs of characters that are not whitespace *)
WordStarts(s) == { p \in 1..Len(s) : ~IsSpace(s[p]) /\ (p = 1 \/ IsSpace(s[p - 1])) }

WordEnd(s, p) ==
    CHOOSE q \in p..Len(s) :
        /\ \A j \in p..q : ~IsSpace(s[j])
        /\ q = Len(s) \/ IsSpace(s[q + 1])

WordsOf(s) ==
    [j \in 1..Cardinality(WordStarts(s)) |->
        LET p == CHOOSE x \in WordStarts(s) :
                    Cardinality({ y \in WordStarts(s) : y < x }) = j - 1
        IN SubSeq(s, p, WordEnd(s, p))]

(* C30 (as stated): for every seed phrase with words w0..w(k-1), the fills   *)
(* of importWallet are, in this order, field 0 with w0, field 1 with w1 and  *)
(* so on; no field of index k or more is filled, and once the loop over the  *)
(* words has ended there have been exactly k fills.                          *)
C30_OneFillPerWord ==
    LET ws == WordsOf(imp.seed)
    IN /\ \A j \in 1..Len(imp.fills) :
             /\ j <= Len(ws)
             /\ imp.fills[j] = [i |-> j - 1, w |-> ws[j]]
       /\ imp.pc \notin {"idle", "load", "onboarding", "termsCount", "isChecked",
                         "termsClick", "interactable", "importClick", "branch",
                         "agree1", "agree2", "rewait", "metricsCount", "decline",
                         "srpWait", "words", "wordFill", "thrown"}
             => Len(imp.fills) = Len(ws)

-----------------------------------------------------------------------------
(* Properties of the target page *)

(* A method is invoked in this step *)
Invoked == call.op = "none" /\ call'.op # "none"

(* A UI step of the running method settles in this step *)
Stepped == call.op # "none" /\ call.result = "none" /\ call' # call /\ call'.op # "none"

(* The notification pages open now, and those before page p in page order *)
OpenNotifications == { ctx[j] : j \in { i \in 1..Len(ctx) : ctx[i] \in NotificationPages } }

Before(p) ==
    { ctx[j] : j \in { i \in 1..Len(ctx) : \E h \in (i + 1)..Len(ctx) : ctx[h] = p } }

(* C23: connectToDapp, confirmSignature, rejectSignature,                   *)
(* confirmTransaction and rejectTransaction choose their page when they are *)
(* invoked: the wallet page when no notification page is open, otherwise    *)
(* the notification page that no other notification page precedes in page   *)
(* order; every UI step of the invocation works on that page, whatever      *)
(* opens or closes meanwhile, and the next invocation chooses anew.         *)
C23_TargetChosenOnce ==
    [][/\ (Invoked /\ call'.op \in PromptMethods) =>
            IF OpenNotifications = {}
            THEN call'.target = "home"
            ELSE /\ call'.target \in OpenNotifications
                 /\ Before(call'.target) \cap NotificationPages = {}
       /\ (Stepped /\ call.op \in PromptMethods) =>
            /\ call'.on = call.target
            /\ call'.target = call.target]_vars

(* A step on the page chosen at invocation although another notification    *)
(* page has come first in page order since                                  *)
C23_Witness ==
    /\ call.op \in PromptMethods /\ call.k > 1
    /\ call.on = "notification2" /\ ~call.failed
    /\ ctx = <<"notification1", "notification2">>

(* C24: every UI step of unlock, addNetwork and switchNetwork works on the  *)
(* wallet page, also when a notification page was open at invocation.       *)
C24_HomeMethodsOnWalletPage ==
    [][/\ (Invoked /\ call'.op \in HomeMethods) => call'.target = "home"
       /\ (Stepped /\ call.op \in HomeMethods) => call'.on = "home"]_vars

C24_Witness ==
    /\ call.op \in HomeMethods /\ call.popupAtCall
    /\ call.on = "home" /\ call.k > 1
    /\ FindNotificationPage # "none"

-----------------------------------------------------------------------------
(* Properties of addNetwork on the form *)

(* The validation poll is running *)
Validating == addNet.pc \in {"isEnabled", "hasSpinner", "hasChainIdError", "interval"}

Did(step) == \E j \in 1..Len(addNet.did) : addNet.did[j] = step

(* C32 (as stated): the save step polls for the enabled save button first,  *)
(* with a swallowed timeout, then clicks it; the forced click comes only    *)
(* after the normal click failed and the key press only after the forced    *)
(* click failed; no failure of the three makes addNetwork throw or reaches  *)
(* the process as an unhandled rejection.                                   *)
C32_SaveFallbacks ==
    /\ [](/\ Did("click") => addNet.savePoll \in {"true", "timeout"}
          /\ Did("force") => "click" \in addNet.failed
          /\ Did("keyboard") => "force" \in addNet.failed
          /\ ~addNet.unhandled)
    /\ [][addNet.pc \in {"saveEnabled", "saveInterval", "click", "force"} =>
            addNet'.result # "thrown"]_vars

(* A request of slot q enters a controller method *)
Admitted(q) ==
    /\ ConnectRequest(q) \/ AddNetworkRequest(q)
    /\ wreq'[q].pc # "done"

(* The call of slot r takes its next awaited step *)
StepOf(r) ==
    \/ ConnectWait(r) \/ ConnectClick(r) \/ ConnectDetached(r)
    \/ AddNetworkGoto(r) \/ AddNetworkFormReady(r) \/ AddNetworkFormTimeout(r)
    \/ AddNetworkFill(r) \/ AddNetworkPoll(r) \/ AddNetworkSave(r)

(* C36: nothing keeps two controller operations apart: while one is at an  *)
(* await a request for another is let into its method, and when two are at *)
(* work either of them can take its next step, so that a step of one falls  *)
(* between two steps of the other.                                          *)
C36_NoMutualExclusion ==
    \A r, q \in Slots :
        r # q /\ InFlight(r) =>
            /\ wreq[q].op = "idle" => ENABLED Admitted(q)
            /\ InFlight(q) => ENABLED StepOf(r) /\ ENABLED StepOf(q)

(* A step of addNetwork fell between two steps of connectToDapp, or one of  *)
(* connectToDapp between two of addNetwork, both on the wallet page         *)
C36_Witness ==
    /\ trail.cut /\ trail.on = "home"
    /\ \E r, q \in Slots :
        /\ InFlight(r) /\ wreq[r].op = "connectToDapp" /\ wreq[r].target = "home"
        /\ InFlight(q) /\ wreq[q].op = "addNetwork"

(* C35 (as stated), on addNetwork: the wait for a marker of the save and    *)
(* the clicks that dismiss popups are cosmetic: whether they time out or    *)
(* reject, addNetwork does not throw at them.                               *)
C35_CosmeticStepsNeverFail ==
    [][addNet.pc \in {"confirm", "dismiss", "popover"} => addNet'.result # "thrown"]_vars

-----------------------------------------------------------------------------
(* Properties of the steps of the controller methods *)

(* C33: switchNetwork opens the network selector and then waits for an      *)
(* entry of the requested name; when that wait rejects the method throws,   *)
(* the endpoint answers 500 and no entry is clicked; the list-item selector *)
(* is clicked only after the click by text rejected; a rejection of the     *)
(* final poll of the network display does not fail the call.                *)
C33_SwitchNetwork ==
    call.op = "switchNetwork" =>
        /\ "waitEntry" \in call.did => "open" \in call.did \ call.bad
        /\ "waitEntry" \in call.bad =>
                /\ call.result = "thrown" /\ call.status = 500
                /\ call.did \cap {"clickText", "clickItem"} = {}
        /\ "clickText" \in call.did => "waitEntry" \in call.did \ call.bad
        /\ "clickItem" \in call.did => "clickText" \in call.bad
        /\ "clickText" \in call.bad =>
                "clickItem" \in call.did \/ StepNames(call.op)[call.k] = "clickItem"
        /\ "pollDisplay" \in call.did =>
                /\ call.result = "returned" /\ call.status = 200
                /\ {"clickText", "clickItem"} \cap (call.did \ call.bad) # {}
        /\ call.result = "thrown" =>
                call.bad \cap {"open", "waitEntry", "clickItem"} # {}

(* The entry was clicked by the list-item selector after the click by text  *)
(* rejected, the final poll timed out, and the endpoint answered 200        *)
C33_Witness ==
    /\ call.op = "switchNetwork" /\ call.status = 200
    /\ call.bad = {"clickText", "pollDisplay"}
    /\ "clickItem" \in call.did

(* The scroll steps, and the methods on signatures and on transactions *)
ScrollSteps == {"scrollEvaluate", "scrollClick"}

SignatureMethods == {"confirmSignature", "rejectSignature"}

TransactionMethods == {"confirmTransaction", "rejectTransaction"}

(* The click chain of the four methods: the fallback is clicked only after  *)
(* the first click rejected, on transactions there is one click and no      *)
(* scroll step, a rejected scroll step is swallowed, and the method throws  *)
(* and the endpoint answers 500 exactly when the last click of the chain    *)
(* rejected.                                                                *)
ClickChain ==
    /\ call.op \in SignatureMethods =>
        /\ "fallback" \in call.did => "click" \in call.bad
        /\ call.result = "thrown" <=> "fallback" \in call.bad
        /\ call.result = "returned" =>
                {"click", "fallback"} \cap (call.did \ call.bad) # {}
    /\ call.op \in TransactionMethods =>
        /\ call.did \subseteq {"click"}
        /\ call.result = "thrown" <=> "click" \in call.bad
    /\ call.op \in SignatureMethods \cup TransactionMethods =>
        /\ call.result = "thrown" <=> call.status = 500
        /\ call.result = "returned" <=> call.status = 200

(* C34 (as stated): confirmSignature and rejectSignature both go through a  *)
(* scroll step, whose rejection is swallowed, before the confirm or cancel  *)
(* click; the click chain is as above.                                      *)
C34_ScrollOnBothSignatureMethods ==
    /\ ClickChain
    /\ call.op \in SignatureMethods /\ "click" \in call.did =>
            ScrollSteps \subseteq call.did

(* C34 (amended): confirmSignature goes through the scroll steps, whose     *)
(* rejection is swallowed, before its click; rejectSignature has no scroll  *)
(* step; the click chain is as above.                                       *)
C34_ScrollOnConfirmOnly ==
    /\ ClickChain
    /\ call.op = "confirmSignature" /\ "click" \in call.did =>
            ScrollSteps \subseteq call.did
    /\ call.op = "rejectSignature" => call.did \cap ScrollSteps = {}

(* confirmSignature answered 200 through the fallback click although both   *)
(* scroll steps rejected                                                    *)
C34_Witness ==
    /\ call.op = "confirmSignature" /\ call.status = 200
    /\ call.bad = ScrollSteps \cup {"click"}
    /\ "fallback" \in call.did

-----------------------------------------------------------------------------
(* fetchWithRetry: the attempts of a fetch and the waits between them.      *)
(* retry.delays lists the timers the call has set, in order.                *)

RetryFrame ==
    UNCHANGED <<regVars, walVars, surface, trail, boot, proc, dom, wait, screen, imp, ctx, call,
                form, addNet>>

(* What an attempt fails with: a response that is not ok, or a rejected fetch *)
FetchErrors == {"HTTP 404", "HTTP 503", "fetch failed"}

(* delayMs * (i + 1) *)
BackoffDelay(delayMs, i) == delayMs * (i + 1)

(* throw new Error(`Failed after ${maxRetries} retries: ...`) *)
RetryThrows(c) == [c EXCEPT !.pc = "done", !.result = "throw"]

(* fetchWithRetry(url, maxRetries, delayMs) up to its first await *)
RetryCall(maxRetries, delayMs) ==
    /\ retry.pc = "idle"
    /\ LET c == [IdleRetry EXCEPT !.maxRetries = maxRetries, !.delayMs = delayMs]
       IN  retry' = IF 0 < maxRetries THEN [c EXCEPT !.pc = "fetch"] ELSE RetryThrows(c)
    /\ RetryFrame

(* await fetch(url) resolves with an ok response: return res *)
FetchOk ==
    /\ retry.pc = "fetch"
    /\ retry' = [retry EXCEPT !.pc = "done", !.result = "return",
                              !.attempts = retry.attempts + 1]
    /\ RetryFrame

(* await fetch(url) rejects or resolves with a response that is not ok: the *)
(* catch block, and the end of the loop after the last attempt              *)
FetchFails(err) ==
    /\ retry.pc = "fetch"
    /\ LET c == [retry EXCEPT !.attempts = retry.attempts + 1, !.lastError = err]
       IN  retry' =
             IF retry.i < retry.maxRetries - 1
             THEN [c EXCEPT !.pc = "backoff",
                            !.delays = Append(retry.delays,
                                              BackoffDelay(retry.delayMs, retry.i))]
             ELSE RetryThrows([c EXCEPT !.i = retry.i + 1])
    /\ RetryFrame

(* The timer of the catch block fires: i++ and the next attempt *)
BackoffElapses ==
    /\ retry.pc = "backoff"
    /\ retry' = [retry EXCEPT !.pc = "fetch", !.i = retry.i + 1]
    /\ RetryFrame

(* The next call *)
RetryRecycle ==
    /\ retry.pc = "done"
    /\ retry' = IdleRetry
    /\ RetryFrame

NextRetry ==
    \/ \E maxRetries \in 0..MaxRetries, delayMs \in 1..MaxDelayMs : RetryCall(maxRetries, delayMs)
    \/ FetchOk
    \/ \E err \in FetchErrors : FetchFails(err)
    \/ BackoffElapses
    \/ RetryRecycle

SpecRetry == Init /\ [][NextRetry]_vars

-----------------------------------------------------------------------------
(* Properties of fetchWithRetry *)

(* At most maxRetries attempts; a return right after the one ok attempt; a  *)
(* wait between consecutive attempts and none after the last; a throw once  *)
(* maxRetries attempts have failed                                          *)
RetryAttempts ==
    /\ retry.attempts <= retry.maxRetries
    /\ retry.pc = "fetch" => Len(retry.delays) = retry.attempts
    /\ retry.pc = "backoff" => Len(retry.delays) = retry.attempts
                               /\ retry.attempts < retry.maxRetries
    /\ retry.pc = "done" /\ retry.attempts > 0 => Len(retry.delays) = retry.attempts - 1
    /\ retry.result = "return" => retry.pc = "done" /\ retry.attempts >= 1
    /\ retry.result = "throw" <=> retry.pc = "done" /\ retry.attempts = retry.maxRetries
                                  /\ (retry.attempts > 0 => retry.lastError # "null")
                                  /\ (retry.result # "return")

(* Each wait is longer than the one before by one and the same factor *)
ExponentialBackoff ==
    \A k \in 1..Len(retry.delays) :
        /\ k > 1 => retry.delays[k] > retry.delays[k - 1]
        /\ k > 2 => retry.delays[k] * retry.delays[k - 2]
                        = retry.delays[k - 1] * retry.delays[k - 1]

(* C39 (as stated): fetchWithRetry makes at most maxRetries attempts,       *)
(* returns at the first ok response, waits between consecutive attempts     *)
(* with an exponentially growing delay, does not wait after the last        *)
(* attempt, and throws once maxRetries attempts have failed.                *)
C39_RetryWithExponentialBackoff ==
    /\ RetryAttempts
    /\ ExponentialBackoff

====
